---- MODULE Spec2Model ----
(***************************************************************************)
(* Orchestration substrate of the AI development pipeline:                 *)
(*   - the assignment store (agents/assignment_manager.py) and the queue   *)
(*     mode of the messaging bus (agents/messaging.py), both backed by the *)
(*     broker keys queue:agent:<kind> and assignment:<repo>:<issue>;       *)
(*   - the worker loops and the drain check (agents/worker_daemon.py);     *)
(*   - the stall reset of the pipeline monitor (agents/pipeline_monitor.py)*)
(*   - the self-healing envelope around the generation CLI                 *)
(*     (agents/base_agent.py), specification SpecHeal;                     *)
(*   - the CI watcher of the pipeline monitor, specification SpecCI;       *)
(*   - the monitor registry of the master (agents/master_agent.py),        *)
(*     specification SpecReg;                                              *)
(*   - one iteration of the monitor loop against the worker states, with   *)
(*     the age of a start time made explicit, specification SpecHealth;    *)
(*   - one worker loop with stop(), broker outages and the GitHub sync of  *)
(*     a failed task made explicit, specification SpecLoop;                *)
(*   - deploy_project with the port allocations file and the ingress list  *)
(*     of the tunnel config (agents/deployer.py), specification SpecDeploy;*)
(*   - the retry decorators (utils/error_handlers.py), specification       *)
(*     SpecRetry;                                                          *)
(*   - one broker sorted set with the serialized members of issue tasks    *)
(*     and queue-mode messages, specification SpecTie.                     *)
(*                                                                         *)
(* One repository is modelled, so a tracking key is the issue number.      *)
(* The broker primitives are taken to succeed; every broker call of one    *)
(* handler that runs between two awaits is one atomic step.                *)
(***************************************************************************)
EXTENDS Integers, Sequences, FiniteSets, TLC

\* ---------------------------------------------------------------- bounds
\* number of enqueue operations coming from outside the worker pool
MaxTasks == 2

\* number of call_claude_code invocations started on the modelled agent
MaxCalls == 3

\* number of PipelineMonitor objects the master constructs
MaxMonitors == 3

\* issue numbers of the modelled repository
Issues == {3, 7, 12}

\* number of deploy_project calls started
MaxDeploys == 3

\* number of decorated calls started
MaxWrapped == 3

\* number of members added to the sorted set
MaxEnqueues == 3

\* clock ticks (days) the tracking-record model follows
MaxDays == 9

\* writes of one file the file model follows
MaxWrites == 2

\* deploys started through the master that the project model follows
MaxMasterDeploys == 2

\* implement_feature calls the validation model follows
MaxImplementations == 2

\* entries the task-kind model puts on the queues
MaxKindEnqueues == 3

\* ------------------------------------------------------ program constants
\* the five queues get_queue_status() reads
QueueAgentTypes == {"backend", "frontend", "database", "devops", "qa"}

\* agent_types of the daemon: one worker loop per kind
WorkerAgents == {"backend", "qa"}

\* fallback priority of _get_issue_priority
FallbackPriority == 999

\* priority ProjectManagerAgent.assign_issue_to_agent passes to send_message
MessagePriority == 1

\* tracking keys that are not issue numbers:
\*   assignment:None:None  (claim of an entry without repo_name/issue_number)
\*   assignment::0         (complete/fail of such an entry, defaults "" and 0)
NoneKey == -1
ZeroKey == 0

Keys == Issues \cup {NoneKey, ZeroKey}

NoTask == [id |-> 0, type |-> "none", issue |-> 0, prio |-> 0]

\* names in MasterAgent._projects; every project has a repo_name
Projects == {"p1", "p2"}

\* max_retries of call_claude_code
max_retries == 3

\* values classify_claude_error returns
ErrorTypes == {"rate_limit", "import_error", "auth_error", "file_not_found",
               "permission", "generic"}

\* error types _diagnose_and_fix does not try to heal
Unhealable == {"auth_error", "permission"}

\* coroutines that call call_claude_code on one agent instance: a worker's
\* execute_task and another worker's _get_task_failure_diagnosis
Calls == {1, 2}

\* a call that has returned or raised
Done == {"returned", "raised"}

\* MAX_FIX_ATTEMPTS of the pipeline monitor
MAX_FIX_ATTEMPTS == 3

\* workflow run ids of the monitored repository
Runs == {100, 101}

\* get_workflow_runs raised or returned an empty list
NoRun == [id |-> 0, status |-> "none", conclusion |-> "none"]

\* what runs[0] can look like
LatestRuns ==
    {[id |-> r, status |-> "in_progress", conclusion |-> "none"] : r \in Runs}
    \cup {[id |-> r, status |-> "completed", conclusion |-> c] :
             r \in Runs, c \in {"failure", "success", "cancelled"}}

\* how _handle_ci_failure ends after it has counted the attempt:
\*   raised        get_workflow_run_logs / call_claude_code / the push raised,
\*                 or the loop was cancelled
\*   diag_failed   result.get("success") is false
\*   no_creds      GITHUB_TOKEN / GITHUB_USERNAME / project path missing
\*   pushed        push_project_to_github returned true
\*   push_failed   push_project_to_github returned false
FixOutcomes == {"raised", "diag_failed", "no_creds", "pushed", "push_failed"}

VARIABLES
    queue,                    \* [QueueAgentTypes -> set of entries]  queue:agent:<kind>
    tracking,                 \* [Keys -> status or "absent"]         assignment:<repo>:<issue>
    worker_states,            \* AgentWorkerDaemon._worker_states
    task_start_times,         \* kinds that have an entry in _task_start_times
    all_tasks_done_notified,  \* AgentWorkerDaemon._all_tasks_done_notified
    pc,                       \* where each worker loop is suspended
    cur,                      \* the local `task` of each worker loop
    has_pr,                   \* kinds whose local `result` carries a pr_number
    nextId,                   \* stands for the timestamp that makes each member distinct
    nAssigned,                \* enqueue operations from outside so far
    claimCount,               \* history: how often claim_next_task returned each entry
    deploys,                  \* history: number of _auto_deploy calls
    nonDrainedSeen,           \* history: a non-drained state occurred since the last firing
    fire_mark                 \* history: nextId when the drain hook last fired

VARIABLES
    _is_healing,              \* BaseAgent._is_healing of the modelled agent
    hpc,                      \* where each call_claude_code coroutine is suspended
    attempt,                  \* the loop variable `attempt` of each call
    mainCount,                \* history: main subprocess invocations started by the call
    healCount,                \* history: diagnose-and-fix subprocess invocations started
    nCalls,                   \* calls started so far
    last_error_type,          \* history: class of the failure of each call's last main
                              \*   try, "none" when it succeeded, "other" when it raised
                              \*   something that is not a ClaudeCodeError
    heal_failed               \* history: a diagnose-and-fix invocation of the call failed

VARIABLES
    _running,                 \* PipelineMonitor._running
    _fix_attempts,            \* PipelineMonitor._fix_attempts, 0 for a missing key
    _handled_runs,            \* PipelineMonitor._handled_runs
    latest_run,               \* runs[0] of the last poll
    needs_attention,          \* history: "needs your attention" notifications per run
    green_notified,           \* history: "CI passing" notifications per run
    fail_streak,              \* history: run and length of the current streak of polls
                              \*   that saw it completed with failure
    fix_outcome               \* history: how _handle_ci_failure ended in the last poll,
                              \*   "none" when the poll did not enter it

dvars == <<queue, tracking, worker_states, task_start_times,
           all_tasks_done_notified, pc, cur, has_pr, nextId, nAssigned,
           claimCount, deploys, nonDrainedSeen, fire_mark>>

hvars == <<_is_healing, hpc, attempt, mainCount, healCount, nCalls,
          last_error_type, heal_failed>>

cvars == <<_running, _fix_attempts, _handled_runs, latest_run,
           needs_attention, green_notified, fail_streak, fix_outcome>>

VARIABLES
    _active_project_name,     \* MasterAgent._active_project_name
    _monitors,                \* MasterAgent._monitors, 0 for a missing key
    mon_running,              \* is_running() of every PipelineMonitor constructed so far
    mon_project,              \* history: the project each monitor was started for
    nMonitors                 \* PipelineMonitor objects constructed so far

mvars == <<_active_project_name, _monitors, mon_running, mon_project, nMonitors>>

VARIABLES
    stale,                    \* kinds whose start time is older than the stall threshold
    stall_notes,              \* history: stalled notifications since the kind's last claim
    last_iter,                \* history: what the last monitor iteration did
    tick                      \* history: parity of the monitor iterations

svars == <<stale, stall_notes, last_iter, tick>>

\* PORT_START of the deployer
PORT_START == 3000

\* project names handed to deploy_project; the hostname is <name>.<domain>
DeployNames == {"alpha", "beta"}

\* coroutines that can be inside deploy_project at the same time
Deployers == {1, 2}

\* host ports the bounded number of deploys can reach
Ports == PORT_START .. (PORT_START + MaxDeploys)

\* the ingress element without a hostname key: service http_status:404
CatchAll == [hostname |-> "", port |-> 404]

\* a coroutine that is not inside deploy_project and has returned nothing yet
NoDeploy == [pc |-> "idle", name |-> "", port |-> 0, build_ok |-> FALSE,
             run_ok |-> FALSE, route_ok |-> FALSE, raised |-> FALSE,
             success |-> FALSE, note |-> "none"]

VARIABLES
    port_allocations,         \* port_allocations.json: [DeployNames -> port, 0 = no key]
    ingress,                  \* the ingress list of ~/.cloudflared/config.yml
    containers,               \* host port of the running container of each name, 0 = none
    deploy_call,              \* per coroutine: position in deploy_project, locals, result
    nDeploys,                 \* deploy_project calls started so far
    last_update,              \* history: port of the last ingress update per hostname
    last_applied,             \* history: hostname and port of the last ingress update
    repeated                  \* history: the last ingress update had the same hostname
                              \*   and port as the update before it

yvars == <<port_allocations, ingress, containers, deploy_call, nDeploys,
           last_update, last_applied, repeated>>

\* max_retries arguments given to retry_with_backoff; 3 is its default
RetryArgs == 0..3

\* max_retries default of retry_on_rate_limit, the value every use site has
RateLimitRetries == 5

\* a wrapper that has not been called
NoWrapped == [pc |-> "idle", kind |-> "none", max_retries |-> 0, attempt |-> 0,
              delay |-> 0]

VARIABLES
    wrapped,                  \* the running wrapper: position, decorator arguments, locals
    func_calls,               \* history: calls of the wrapped function by this wrapper
    nWrapped                  \* decorated calls started so far

rvars == <<wrapped, func_calls, nWrapped>>

\* repositories in byte order of their names
TieRepos == {"a-repo", "b-repo"}

\* issue numbers assigned in the sorted-set model; 1 is the score of a message
TieIssues == {1, 3}

\* values standing for the random message_id of a queue-mode message
Uuids == {1, 2, 3}

VARIABLES
    zset,                     \* members of queue:agent:<kind>
    zseq,                     \* members added so far; stands for the clock of assigned_at
    popped                    \* history: members in the order claim_next_task returned them

qvars == <<zset, zseq, popped>>

\* the TTL assign_issue gives a tracking record, in days (86400 * 7 seconds)
TTL_DAYS == 7

\* what TTL answers for a key without expiry and for a missing key
NoExpiry == -1
NoKey == -2

\* history counters stop here
AgeCap == 8

VARIABLES
    rec_status,               \* status field of assignment:<repo>:<issue>, "absent" = no key
    rec_ttl,                  \* days until the key expires, NoExpiry, or NoKey
    in_queue,                 \* the task of the record is a member of its queue
    claimed,                  \* a worker holds the task
    since_write,              \* history: days since the last write to the record
    since_enqueue,            \* history: days since the last assign_issue
    last_op,                  \* history: the last step
    days                      \* clock ticks so far

tvars == <<rec_status, rec_ttl, in_queue, claimed, since_write, since_enqueue,
           last_op, days>>

\* the two files: <project>/.project_metadata.json and ~/.cloudflared/config.yml
Files == {"metadata", "ingress"}

\* a dump reaches the file in at most this many flushes of the buffer
FileChunks == 2

\* length of a file that does not exist, and the observation before any read
NoFile == -1

VARIABLES
    file_len,                 \* chunks of the current dump the file holds, NoFile = missing
    file_writer,              \* "idle" or "writing": a process has the file open for writing
    nWrites,                  \* opens for writing so far, per file
    observed                  \* history: what the last read of the file saw

fvars == <<file_len, file_writer, nWrites, observed>>

\* no deploy URL on a record, no deploy in progress, no poll yet
NoUrl == "none"
NoMasterDeploy == [pc |-> "idle", kind |-> "none", name |-> "none",
                   original |-> "none", success |-> FALSE]

VARIABLES
    deploy_url,               \* _projects[name]["deploy_url"], named by the project it points at
    saved_url,                \* deploy_url in <path>/.project_metadata.json of each project
    master_deploy,            \* the deploy in progress: entry point, captured name, result
    nMasterDeploys,           \* deploys started so far
    polled                    \* history: the monitor of the last poll and the repository it polled

pvars == <<deploy_url, saved_url, master_deploy, nMasterDeploys, polled>>

\* how one run of the test command can end: exit code 0, exit code 0 with the
\* word "failed" in the output, another exit code, TimeoutExpired after 120 s,
\* FileNotFoundError
RunOutcomes == {"rc0", "rc0_failed_word", "rc1", "timeout", "not_found"}

NoImplementation == [pc |-> "idle", has_pytest |-> FALSE, has_jest |-> FALSE,
                     first |-> "none", second |-> "none", pushed |-> FALSE,
                     pr |-> FALSE, raised |-> FALSE]

VARIABLES
    impl,                     \* the implement_feature call in progress or the last one
    nImplementations          \* implement_feature calls so far

avars == <<impl, nImplementations>>

\* value of task.get("task_type") for an entry that has no such key
NoTaskType == "absent"

VARIABLES
    kind_queue,               \* per agent kind, the queued entries that matter to the dispatch
    dispatched,               \* history: the last execute_task dispatch
    nKindEnqueues             \* entries queued so far

kvars == <<kind_queue, dispatched, nKindEnqueues>>

\* the components added to the model after the worker loop
uvars == <<yvars, rvars, qvars, tvars, fvars, pvars, avars, kvars>>

VARIABLES
    daemon_running,           \* AgentWorkerDaemon._running
    broker_up,                \* the broker answers
    saw_broker_error,         \* history: kinds whose loop-level handler caught a broker error
    labelled,                 \* tracking keys whose issue carries the needs-attention label
    last_sync                 \* history: how the last _sync_github_on_failure ended

lvars == <<daemon_running, broker_up, saw_broker_error, labelled, last_sync>>

vars == <<dvars, hvars, cvars, mvars, svars, lvars, uvars>>

\* what the steps of one component leave alone
dOthers == <<hvars, cvars, mvars, svars, lvars, uvars>>
hOthers == <<dvars, cvars, mvars, svars, lvars, uvars>>
cOthers == <<dvars, hvars, mvars, svars, lvars, uvars>>
mOthers == <<dvars, hvars, cvars, svars, lvars, uvars>>
lOthers == <<hvars, cvars, mvars, svars, uvars>>
yOthers == <<dvars, hvars, cvars, mvars, svars, lvars, rvars, qvars, tvars, fvars,
              pvars, avars, kvars>>
rOthers == <<dvars, hvars, cvars, mvars, svars, lvars, yvars, qvars, tvars, fvars,
              pvars, avars, kvars>>
qOthers == <<dvars, hvars, cvars, mvars, svars, lvars, yvars, rvars, tvars, fvars,
              pvars, avars, kvars>>
tOthers == <<dvars, hvars, cvars, mvars, svars, lvars, yvars, rvars, qvars, fvars,
              pvars, avars, kvars>>
fOthers == <<dvars, hvars, cvars, mvars, svars, lvars, yvars, rvars, qvars, tvars,
              pvars, avars, kvars>>
pOthers == <<dvars, hvars, cvars, mvars, svars, lvars, yvars, rvars, qvars, tvars,
              fvars, avars, kvars>>
pRest == <<dvars, hvars, cvars, svars, lvars, yvars, rvars, qvars, 
          tvars, fvars, avars, kvars>>
aOthers == <<dvars, hvars, cvars, mvars, svars, lvars, yvars, rvars, qvars, tvars,
              fvars, pvars, kvars>>
kOthers == <<dvars, hvars, cvars, mvars, svars, lvars, yvars, rvars, qvars, tvars,
              fvars, pvars, avars>>
sOthers == <<queue, tracking, all_tasks_done_notified, cur, has_pr, nextId, nAssigned,
             claimCount, deploys, nonDrainedSeen, fire_mark, hvars, cvars, mvars,
             lvars, uvars>>

\* every outside enqueue can be followed by one QA hand-off
MaxId == 2 * MaxTasks

\* ------------------------------------------------------ assignment store

\* _get_issue_priority: float(issue_number), 999.0 when that raises
_get_issue_priority(issue_number) ==
    IF issue_number \in Int THEN issue_number ELSE FallbackPriority

\* tracking key claim_next_task builds: task.get('repo_name'), task.get('issue_number')
ClaimKey(e) == IF e.type = "msg" THEN NoneKey ELSE e.issue

\* tracking key the worker loops build: task.get("repo_name", ""), task.get("issue_number", 0)
WriteKey(e) == IF e.type = "msg" THEN ZeroKey ELSE e.issue

\* mutation: the pop takes the highest score (ZPOPMAX)
MinEntries_Max(q) == {e \in q : \A f \in q : e.prio >= f.prio}

\* members ZPOPMIN may return: those with the lowest score
MinEntries(q) == {e \in q : \A f \in q : e.prio <= f.prio}

\* zadd + hset(status=pending) + expire
assign_issue(issue_number, agent_type) ==
    /\ queue' = [queue EXCEPT ![agent_type] = @ \cup
                   {[id |-> nextId, type |-> "task", issue |-> issue_number,
                     prio |-> _get_issue_priority(issue_number)]}]
    /\ tracking' = [tracking EXCEPT ![issue_number] = "pending"]
    /\ nextId' = nextId + 1

\* mutation: the review is recorded but not queued
assign_pr_review_Lost(issue_number) ==
    /\ queue' = queue
    /\ tracking' = [tracking EXCEPT ![issue_number] = "pending"]
    /\ nextId' = nextId + 1

\* review_pr task for the QA queue, tracking record back to pending
assign_pr_review(issue_number) ==
    /\ queue' = [queue EXCEPT !["qa"] = @ \cup
                   {[id |-> nextId, type |-> "review", issue |-> issue_number,
                     prio |-> _get_issue_priority(issue_number)]}]
    /\ tracking' = [tracking EXCEPT ![issue_number] = "pending"]
    /\ nextId' = nextId + 1

\* send_message(use_queue=True): zadd on queue:agent:<recipient>, no tracking
send_message(recipient) ==
    /\ queue' = [queue EXCEPT ![recipient] = @ \cup
                   {[id |-> nextId, type |-> "msg", issue |-> 0,
                     prio |-> MessagePriority]}]
    /\ nextId' = nextId + 1

complete_task(t, key) == [t EXCEPT ![key] = "completed"]

fail_task(t, key) == [t EXCEPT ![key] = "failed"]

\* ------------------------------------------------------- drain detection

\* _all_queues_empty over get_queue_status
_all_queues_empty == \A k \in QueueAgentTypes : queue[k] = {}

\* _all_workers_idle
_all_workers_idle == \A w \in WorkerAgents : worker_states[w] \in {"idle", "polling", "stopped"}

Drained == _all_queues_empty /\ _all_workers_idle

\* history bookkeeping shared by all steps of the queues and the worker pool;
\* these steps leave the healing envelope and the CI watcher alone
Seen(fired) ==
    /\ nonDrainedSeen' = IF fired THEN FALSE ELSE (nonDrainedSeen \/ ~Drained')
    /\ UNCHANGED dOthers

NoFire == /\ UNCHANGED <<all_tasks_done_notified, deploys, fire_mark>>
          /\ Seen(FALSE)

\* --------------------------------------------------------------- Init
\* AgentWorkerDaemon.__init__ over an empty broker
DispatchInit ==
    /\ queue = [k \in QueueAgentTypes |-> {}]
    /\ tracking = [k \in Keys |-> "absent"]
    /\ worker_states = [w \in WorkerAgents |-> "idle"]
    /\ task_start_times = {}
    /\ all_tasks_done_notified = FALSE
    /\ pc = [w \in WorkerAgents |-> "loop"]
    /\ cur = [w \in WorkerAgents |-> NoTask]
    /\ has_pr = {}
    /\ nextId = 1
    /\ nAssigned = 0
    /\ claimCount = [i \in 1..MaxId |-> 0]
    /\ deploys = 0
    /\ nonDrainedSeen = FALSE
    /\ fire_mark = 0

\* BaseAgent.__init__, no call in progress
HealInit ==
    /\ _is_healing = FALSE
    /\ hpc = [c \in Calls |-> "idle"]
    /\ attempt = [c \in Calls |-> 0]
    /\ mainCount = [c \in Calls |-> 0]
    /\ healCount = [c \in Calls |-> 0]
    /\ nCalls = 0
    /\ last_error_type = [c \in Calls |-> "none"]
    /\ heal_failed = [c \in Calls |-> FALSE]

\* PipelineMonitor.__init__
CIInit ==
    /\ _running = FALSE
    /\ _fix_attempts = [r \in Runs |-> 0]
    /\ _handled_runs = {}
    /\ latest_run = NoRun
    /\ needs_attention = [r \in Runs |-> 0]
    /\ green_notified = [r \in Runs |-> 0]
    /\ fail_streak = [id |-> 0, n |-> 0]
    /\ fix_outcome = "none"

\* MasterAgent.__init__ with the registry restored and one project active
RegInit ==
    /\ _active_project_name = "p1"
    /\ _monitors = [p \in Projects |-> 0]
    /\ mon_running = [m \in 1..MaxMonitors |-> FALSE]
    /\ mon_project = [m \in 1..MaxMonitors |-> "none"]
    /\ nMonitors = 0

\* no start time recorded, no monitor iteration yet
HealthInit ==
    /\ stale = {}
    /\ stall_notes = [w \in WorkerAgents |-> 0]
    /\ last_iter = "none"
    /\ tick = FALSE

\* the daemon has been started, the broker answers, nothing is labelled
LoopInit ==
    /\ daemon_running = TRUE
    /\ broker_up = TRUE
    /\ saw_broker_error = {}
    /\ labelled = {}
    /\ last_sync = "none"

\* no allocations file, no tunnel config, no container
DeployInit ==
    /\ port_allocations = [n \in DeployNames |-> 0]
    /\ ingress = <<>>
    /\ containers = [n \in DeployNames |-> 0]
    /\ deploy_call = [d \in Deployers |-> NoDeploy]
    /\ nDeploys = 0
    /\ last_update = [n \in DeployNames |-> 0]
    /\ last_applied = [hostname |-> "", port |-> 0]
    /\ repeated = FALSE

\* no decorated call has been made
RetryInit ==
    /\ wrapped = NoWrapped
    /\ func_calls = 0
    /\ nWrapped = 0

\* the sorted set does not exist
TieInit ==
    /\ zset = {}
    /\ zseq = 0
    /\ popped = <<>>

\* no record, no task
TtlInit ==
    /\ rec_status = "absent"
    /\ rec_ttl = NoKey
    /\ in_queue = FALSE
    /\ claimed = FALSE
    /\ since_write = 0
    /\ since_enqueue = 0
    /\ last_op = "none"
    /\ days = 0

\* neither file exists, nobody writes
FileInit ==
    /\ file_len = [f \in Files |-> NoFile]
    /\ file_writer = [f \in Files |-> "idle"]
    /\ nWrites = [f \in Files |-> 0]
    /\ observed = [f \in Files |-> NoFile]

\* projects created and saved without a deploy URL
ProjInit ==
    /\ deploy_url = [p \in Projects |-> NoUrl]
    /\ saved_url = [p \in Projects |-> NoUrl]
    /\ master_deploy = NoMasterDeploy
    /\ nMasterDeploys = 0
    /\ polled = [m |-> 0, repo |-> "none"]

\* no implement_feature call yet
ValidateInit ==
    /\ impl = NoImplementation
    /\ nImplementations = 0

\* empty queues, nothing dispatched
KindInit ==
    /\ kind_queue = [a \in QueueAgentTypes |-> {}]
    /\ dispatched = [agent |-> "none", task_type |-> "none", accepted |-> FALSE]
    /\ nKindEnqueues = 0

Init == DispatchInit /\ HealInit /\ CIInit /\ RegInit /\ HealthInit /\ LoopInit
        /\ DeployInit /\ RetryInit /\ TieInit /\ TtlInit /\ FileInit /\ ProjInit
        /\ ValidateInit /\ KindInit

\* ------------------------------------------------------ enqueue operations

\* AssignmentManager.assign_issue, called by assign_all_issues
AssignIssue ==
    /\ nAssigned < MaxTasks
    /\ \E i \in Issues, k \in WorkerAgents : assign_issue(i, k)
    /\ nAssigned' = nAssigned + 1
    /\ UNCHANGED <<worker_states, task_start_times, pc, cur, claimCount>>
    /\ UNCHANGED has_pr
    /\ NoFire

\* ProjectManagerAgent.assign_issue_to_agent
AssignIssueToAgent ==
    /\ nAssigned < MaxTasks
    /\ \E k \in WorkerAgents : send_message(k)
    /\ nAssigned' = nAssigned + 1
    /\ UNCHANGED <<tracking, worker_states, task_start_times, pc, cur, claimCount>>
    /\ UNCHANGED has_pr
    /\ NoFire

\* ------------------------------------------------------------ worker pool

\* mutation: the claim reads the lowest member without removing it (ZRANGE)
claim_next_task_Peek(agent_type, e) ==
    /\ queue' = queue
    /\ tracking' = [tracking EXCEPT ![ClaimKey(e)] = "in_progress"]
    /\ claimCount' = [claimCount EXCEPT ![e.id] = @ + 1]

\* claim_next_task on a non-empty queue: zpopmin, then hset(status=in_progress)
claim_next_task(agent_type, e) ==
    /\ queue' = [queue EXCEPT ![agent_type] = @ \ {e}]
    /\ tracking' = [tracking EXCEPT ![ClaimKey(e)] = "in_progress"]
    /\ claimCount' = [claimCount EXCEPT ![e.id] = @ + 1]

\* mutation: the hook is not guarded by the notified flag
_check_and_trigger_deploy_NoFlag(w) ==
    IF Drained'
    THEN /\ all_tasks_done_notified' = TRUE
         /\ deploys' = deploys + 1
         /\ fire_mark' = nextId'
         /\ pc' = [pc EXCEPT ![w] = "deploy"]
         /\ Seen(TRUE)
    ELSE /\ all_tasks_done_notified' = FALSE
         /\ UNCHANGED <<deploys, fire_mark>>
         /\ pc' = [pc EXCEPT ![w] = "loop"]
         /\ Seen(FALSE)

\* _check_and_trigger_deploy, evaluated on the state the finishing worker leaves
_check_and_trigger_deploy(w) ==
    IF Drained'
    THEN IF ~all_tasks_done_notified
         THEN /\ all_tasks_done_notified' = TRUE
              /\ deploys' = deploys + 1
              /\ fire_mark' = nextId'
              /\ pc' = [pc EXCEPT ![w] = "deploy"]
              /\ Seen(TRUE)
         ELSE /\ UNCHANGED <<all_tasks_done_notified, deploys, fire_mark>>
              /\ pc' = [pc EXCEPT ![w] = "loop"]
              /\ Seen(FALSE)
    ELSE /\ all_tasks_done_notified' = FALSE
         /\ UNCHANGED <<deploys, fire_mark>>
         /\ pc' = [pc EXCEPT ![w] = "loop"]
         /\ Seen(FALSE)

\* tail of one loop iteration: state idle, start time dropped, drain check
Finish(w) ==
    /\ worker_states' = [worker_states EXCEPT ![w] = "idle"]
    /\ task_start_times' = task_start_times \ {w}
    /\ cur' = [cur EXCEPT ![w] = NoTask]
    /\ has_pr' = has_pr \ {w}
    /\ _check_and_trigger_deploy(w)

\* head of one loop iteration of run_worker / run_qa_worker, queue empty:
\* claim_next_task returns None, state idle, sleep
PollEmpty(w) ==
    /\ pc[w] = "loop"
    /\ queue[w] = {}
    /\ worker_states' = [worker_states EXCEPT ![w] = "idle"]
    /\ UNCHANGED <<queue, tracking, task_start_times, pc, cur, nextId,
                   nAssigned, claimCount>>
    /\ UNCHANGED has_pr
    /\ NoFire

\* mutation: the loop claims again while its task is still being executed
PollClaim_WhileBusy(w) ==
    /\ pc[w] \in {"loop", "exec"}
    /\ \E e \in MinEntries(queue[w]) :
          /\ claim_next_task(w, e)
          /\ cur' = [cur EXCEPT ![w] = e]
    /\ worker_states' = [worker_states EXCEPT ![w] = "working"]
    /\ task_start_times' = task_start_times \cup {w}
    /\ pc' = [pc EXCEPT ![w] = "exec"]
    /\ UNCHANGED <<nextId, nAssigned>>
    /\ UNCHANGED has_pr
    /\ NoFire

\* head of one loop iteration, a task is claimed and the agent is available
PollClaim(w) ==
    /\ pc[w] = "loop"
    /\ \E e \in MinEntries(queue[w]) :
          /\ claim_next_task(w, e)
          /\ cur' = [cur EXCEPT ![w] = e]
    /\ worker_states' = [worker_states EXCEPT ![w] = "working"]
    /\ task_start_times' = task_start_times \cup {w}
    /\ pc' = [pc EXCEPT ![w] = "exec"]
    /\ UNCHANGED <<nextId, nAssigned>>
    /\ UNCHANGED has_pr
    /\ NoFire

\* head of one loop iteration, a task is claimed and _get_agent raises:
\* the loop-level handler sets state error and backs off
PollClaimError(w) ==
    /\ pc[w] = "loop"
    /\ \E e \in MinEntries(queue[w]) : claim_next_task(w, e)
    /\ worker_states' = [worker_states EXCEPT ![w] = "error"]
    /\ task_start_times' = task_start_times \cup {w}
    /\ pc' = [pc EXCEPT ![w] = "backoff"]
    /\ UNCHANGED <<cur, nextId, nAssigned>>
    /\ UNCHANGED has_pr
    /\ NoFire

\* the sleep of the loop-level handler ends
Backoff(w) ==
    /\ pc[w] = "backoff"
    /\ pc' = [pc EXCEPT ![w] = "loop"]
    /\ UNCHANGED <<queue, tracking, worker_states, task_start_times, cur,
                   nextId, nAssigned, claimCount>>
    /\ UNCHANGED has_pr
    /\ NoFire

\* run_worker: execute_task returned a result, with or without a pr_number;
\* complete_task, then the GitHub sync awaits
ExecOk(w) ==
    /\ w # "qa"
    /\ pc[w] = "exec"
    /\ \E pr_number \in BOOLEAN :
          has_pr' = IF pr_number THEN has_pr \cup {w} ELSE has_pr \ {w}
    /\ tracking' = complete_task(tracking, WriteKey(cur[w]))
    /\ pc' = [pc EXCEPT ![w] = "sync_ok"]
    /\ UNCHANGED <<queue, worker_states, task_start_times, cur, nextId,
                   nAssigned, claimCount>>
    /\ NoFire

\* run_worker / run_qa_worker: execute_task raised; fail_task, then the
\* diagnosis call and the GitHub sync await
ExecFail(w) ==
    /\ pc[w] = "exec"
    /\ tracking' = fail_task(tracking, WriteKey(cur[w]))
    /\ pc' = [pc EXCEPT ![w] = "diag"]
    /\ UNCHANGED <<queue, worker_states, task_start_times, cur, nextId,
                   nAssigned, claimCount>>
    /\ UNCHANGED has_pr
    /\ NoFire

\* run_worker after the sync: the result carries no pr_number (or the kind is
\* neither backend nor frontend), no QA hand-off
AfterSync(w) ==
    /\ pc[w] = "sync_ok"
    /\ ~(w \in {"backend", "frontend"} /\ w \in has_pr)
    /\ UNCHANGED <<queue, tracking, nextId, nAssigned, claimCount>>
    /\ Finish(w)

\* mutation: the hand-off does not look at the result
EnqueueQAReview_AnyResult(w) ==
    /\ pc[w] = "sync_ok"
    /\ w \in {"backend", "frontend"}
    /\ assign_pr_review(WriteKey(cur[w]))
    /\ UNCHANGED <<nAssigned, claimCount>>
    /\ Finish(w)

\* run_worker after the sync: the result carries a pr_number and
\* _enqueue_qa_review puts the review on the QA queue
EnqueueQAReview(w) ==
    /\ pc[w] = "sync_ok"
    /\ w \in {"backend", "frontend"}
    /\ w \in has_pr
    /\ assign_pr_review(WriteKey(cur[w]))
    /\ UNCHANGED <<nAssigned, claimCount>>
    /\ Finish(w)

\* run_worker after the sync: the result carries a pr_number and
\* _enqueue_qa_review raises inside the try block
\* that already ran complete_task; the handler runs fail_task
EnqueueQAReviewRaises(w) ==
    /\ pc[w] = "sync_ok"
    /\ w \in {"backend", "frontend"}
    /\ w \in has_pr
    /\ tracking' = fail_task(tracking, WriteKey(cur[w]))
    /\ pc' = [pc EXCEPT ![w] = "diag"]
    /\ UNCHANGED <<queue, worker_states, task_start_times, cur, nextId,
                   nAssigned, claimCount>>
    /\ UNCHANGED has_pr
    /\ NoFire

\* diagnosis and failure sync are over
AfterDiag(w) ==
    /\ pc[w] = "diag"
    /\ UNCHANGED <<queue, tracking, nextId, nAssigned, claimCount>>
    /\ Finish(w)

\* run_qa_worker: the review returned; approved -> merge, close, complete_task;
\* rejected -> comment, label, fail_task
QAExec ==
    /\ pc["qa"] = "exec"
    /\ \E approved \in BOOLEAN :
          tracking' = IF approved
                      THEN complete_task(tracking, WriteKey(cur["qa"]))
                      ELSE fail_task(tracking, WriteKey(cur["qa"]))
    /\ UNCHANGED <<queue, nextId, nAssigned, claimCount>>
    /\ Finish("qa")

\* _auto_deploy returns
DeployDone(w) ==
    /\ pc[w] = "deploy"
    /\ pc' = [pc EXCEPT ![w] = "loop"]
    /\ UNCHANGED <<queue, tracking, worker_states, task_start_times, cur,
                   nextId, nAssigned, claimCount>>
    /\ UNCHANGED has_pr
    /\ NoFire

\* mutation: the stall reset also marks the stalled task failed
StallReset_FailsTask(w) ==
    /\ worker_states[w] = "working"
    /\ w \in task_start_times
    /\ worker_states' = [worker_states EXCEPT ![w] = "idle"]
    /\ task_start_times' = task_start_times \ {w}
    /\ tracking' = fail_task(tracking, WriteKey(cur[w]))
    /\ UNCHANGED <<queue, pc, cur, nextId, nAssigned, claimCount>>
    /\ UNCHANGED has_pr
    /\ NoFire

\* PipelineMonitor._check_worker_health on a worker whose start time is older
\* than the stall threshold
StallReset(w) ==
    /\ worker_states[w] = "working"
    /\ w \in task_start_times
    /\ worker_states' = [worker_states EXCEPT ![w] = "idle"]
    /\ task_start_times' = task_start_times \ {w}
    /\ UNCHANGED <<queue, tracking, pc, cur, nextId, nAssigned, claimCount>>
    /\ UNCHANGED has_pr
    /\ NoFire

Worker(w) ==
    \/ PollEmpty(w)
    \/ PollClaim(w)
    \/ PollClaimError(w)
    \/ Backoff(w)
    \/ ExecOk(w)
    \/ ExecFail(w)
    \/ AfterSync(w)
    \/ EnqueueQAReview(w)
    \/ EnqueueQAReviewRaises(w)
    \/ AfterDiag(w)
    \/ DeployDone(w)

Next ==
    \/ AssignIssue
    \/ AssignIssueToAgent
    \/ \E w \in WorkerAgents : Worker(w)
    \/ QAExec
    \/ \E w \in WorkerAgents : StallReset(w)

Spec == Init /\ [][Next]_vars

\* The event loop runs every worker coroutine: sleeps end, subprocesses and
\* HTTP calls carry timeouts.
LiveSpec ==
    /\ Spec
    /\ \A w \in WorkerAgents : WF_vars(Worker(w))
    /\ WF_vars(QAExec)

\* ==================================================== self-healing envelope

\* call_claude_code after a ClaudeCodeError and the healing attempt: back off
\* and retry while attempt < max_retries - 1, else raise
Retry(c) ==
    hpc' = [hpc EXCEPT ![c] = IF attempt[c] < max_retries - 1
                              THEN "sleep" ELSE "raised"]

\* call_claude_code up to the first _run_claude_subprocess
StartCall(c) ==
    /\ nCalls < MaxCalls
    /\ hpc[c] \in {"idle"} \cup Done
    /\ hpc' = [hpc EXCEPT ![c] = "main"]
    /\ attempt' = [attempt EXCEPT ![c] = 0]
    /\ mainCount' = [mainCount EXCEPT ![c] = 1]
    /\ healCount' = [healCount EXCEPT ![c] = 0]
    /\ nCalls' = nCalls + 1
    /\ last_error_type' = [last_error_type EXCEPT ![c] = "none"]
    /\ heal_failed' = [heal_failed EXCEPT ![c] = FALSE]
    /\ UNCHANGED <<_is_healing, hOthers>>

\* the main subprocess exits with code 0: the result is returned
MainReturns(c) ==
    /\ hpc[c] = "main"
    /\ hpc' = [hpc EXCEPT ![c] = "returned"]
    /\ last_error_type' = [last_error_type EXCEPT ![c] = "none"]
    /\ UNCHANGED <<_is_healing, attempt, mainCount, healCount, nCalls, heal_failed,
                   hOthers>>

\* the main subprocess call raises something that is not a ClaudeCodeError:
\* handle_error, then the call raises without retry
MainRaisesOther(c) ==
    /\ hpc[c] = "main"
    /\ hpc' = [hpc EXCEPT ![c] = "raised"]
    /\ last_error_type' = [last_error_type EXCEPT ![c] = "other"]
    /\ UNCHANGED <<_is_healing, attempt, mainCount, healCount, nCalls, heal_failed,
                   hOthers>>

\* mutation: auth and permission errors are healed like the others
_diagnose_and_fix_HealsAll(c, error_type) ==
    IF ~_is_healing
    THEN /\ _is_healing' = TRUE
         /\ healCount' = [healCount EXCEPT ![c] = @ + 1]
         /\ hpc' = [hpc EXCEPT ![c] = "heal"]
    ELSE /\ UNCHANGED <<_is_healing, healCount>>
         /\ Retry(c)

\* _diagnose_and_fix up to its subprocess call, with the caller's own test of
\* the flag: no healing while the flag is set or for auth/permission errors
_diagnose_and_fix(c, error_type) ==
    IF ~_is_healing /\ error_type \notin Unhealable
    THEN /\ _is_healing' = TRUE
         /\ healCount' = [healCount EXCEPT ![c] = @ + 1]
         /\ hpc' = [hpc EXCEPT ![c] = "heal"]
    ELSE /\ UNCHANGED <<_is_healing, healCount>>
         /\ Retry(c)

\* the main subprocess fails or times out: ClaudeCodeError
MainFails(c) ==
    /\ hpc[c] = "main"
    /\ \E error_type \in ErrorTypes :
          /\ _diagnose_and_fix(c, error_type)
          /\ last_error_type' = [last_error_type EXCEPT ![c] = error_type]
    /\ UNCHANGED <<attempt, mainCount, nCalls, heal_failed, hOthers>>

\* mutation: the flag is cleared only when the healing subprocess succeeded
HealEnds_NoFinally(c) ==
    /\ hpc[c] = "heal"
    /\ \E ok \in BOOLEAN :
          /\ _is_healing' = IF ok THEN FALSE ELSE _is_healing
          /\ heal_failed' = [heal_failed EXCEPT ![c] = @ \/ ~ok]
    /\ Retry(c)
    /\ UNCHANGED <<attempt, mainCount, healCount, nCalls, last_error_type, hOthers>>

\* mutation: a failure of the healing subprocess is raised to the caller
HealEnds_Propagates(c) ==
    /\ hpc[c] = "heal"
    /\ \E ok \in BOOLEAN :
          /\ _is_healing' = FALSE
          /\ heal_failed' = [heal_failed EXCEPT ![c] = @ \/ ~ok]
          /\ IF ok THEN Retry(c) ELSE hpc' = [hpc EXCEPT ![c] = "raised"]
    /\ UNCHANGED <<attempt, mainCount, healCount, nCalls, last_error_type, hOthers>>

\* the healing subprocess ends, successfully or not: the exception is caught
\* and logged, finally clears the flag
HealEnds(c) ==
    /\ hpc[c] = "heal"
    /\ \E ok \in BOOLEAN :
          /\ _is_healing' = FALSE
          /\ heal_failed' = [heal_failed EXCEPT ![c] = @ \/ ~ok]
    /\ Retry(c)
    /\ UNCHANGED <<attempt, mainCount, healCount, nCalls, last_error_type, hOthers>>

\* the back-off sleep ends: next iteration, next main subprocess
SleepEnds(c) ==
    /\ hpc[c] = "sleep"
    /\ attempt' = [attempt EXCEPT ![c] = @ + 1]
    /\ mainCount' = [mainCount EXCEPT ![c] = @ + 1]
    /\ hpc' = [hpc EXCEPT ![c] = "main"]
    /\ UNCHANGED <<_is_healing, healCount, nCalls, last_error_type, heal_failed,
                   hOthers>>

HealNext ==
    \E c \in Calls :
        \/ StartCall(c)
        \/ MainReturns(c)
        \/ MainRaisesOther(c)
        \/ MainFails(c)
        \/ HealEnds(c)
        \/ SleepEnds(c)

SpecHeal == Init /\ [][HealNext]_vars

\* ================================================================ CI watcher

\* mutation: the attempt is not counted
_handle_ci_failure_NoCount(run_id, outcome) ==
    /\ _fix_attempts' = _fix_attempts
    /\ _handled_runs' = IF outcome = "pushed"
                        THEN _handled_runs \cup {run_id} ELSE _handled_runs
    /\ fix_outcome' = outcome
    /\ UNCHANGED <<needs_attention, green_notified>>

\* mutation: the run is marked handled however the fix ended
_handle_ci_failure_AlwaysMark(run_id, outcome) ==
    /\ _fix_attempts' = [_fix_attempts EXCEPT ![run_id] = @ + 1]
    /\ _handled_runs' = _handled_runs \cup {run_id}
    /\ fix_outcome' = outcome
    /\ UNCHANGED <<needs_attention, green_notified>>

\* _handle_ci_failure: the attempt is counted first; only a successful push
\* marks the run handled
_handle_ci_failure(run_id, outcome) ==
    /\ _fix_attempts' = [_fix_attempts EXCEPT ![run_id] = @ + 1]
    /\ _handled_runs' = IF outcome = "pushed"
                        THEN _handled_runs \cup {run_id} ELSE _handled_runs
    /\ fix_outcome' = outcome
    /\ UNCHANGED <<needs_attention, green_notified>>

\* mutation: giving up does not mark the run handled
_check_ci_status_NoMark(run) ==
    IF run = NoRun \/ run.id \in _handled_runs \/ run.status # "completed"
    THEN /\ fix_outcome' = "none"
         /\ UNCHANGED <<_fix_attempts, _handled_runs, needs_attention, green_notified>>
    ELSE IF run.conclusion = "failure"
    THEN IF _fix_attempts[run.id] >= MAX_FIX_ATTEMPTS
         THEN /\ needs_attention' = [needs_attention EXCEPT ![run.id] = @ + 1]
              /\ fix_outcome' = "none"
              /\ UNCHANGED <<_fix_attempts, _handled_runs, green_notified>>
         ELSE \E outcome \in FixOutcomes : _handle_ci_failure(run.id, outcome)
    ELSE IF run.conclusion = "success"
    THEN /\ _handled_runs' = _handled_runs \cup {run.id}
         /\ green_notified' = IF _fix_attempts[run.id] > 0
                              THEN [green_notified EXCEPT ![run.id] = @ + 1]
                              ELSE green_notified
         /\ fix_outcome' = "none"
         /\ UNCHANGED <<_fix_attempts, needs_attention>>
    ELSE /\ fix_outcome' = "none"
         /\ UNCHANGED <<_fix_attempts, _handled_runs, needs_attention, green_notified>>

\* _check_ci_status on the latest run
_check_ci_status(run) ==
    IF run = NoRun \/ run.id \in _handled_runs \/ run.status # "completed"
    THEN /\ fix_outcome' = "none"
         /\ UNCHANGED <<_fix_attempts, _handled_runs, needs_attention, green_notified>>
    ELSE IF run.conclusion = "failure"
    THEN IF _fix_attempts[run.id] >= MAX_FIX_ATTEMPTS
         THEN /\ _handled_runs' = _handled_runs \cup {run.id}
              /\ needs_attention' = [needs_attention EXCEPT ![run.id] = @ + 1]
              /\ fix_outcome' = "none"
              /\ UNCHANGED <<_fix_attempts, green_notified>>
         ELSE \E outcome \in FixOutcomes : _handle_ci_failure(run.id, outcome)
    ELSE IF run.conclusion = "success"
    THEN /\ _handled_runs' = _handled_runs \cup {run.id}
         /\ green_notified' = IF _fix_attempts[run.id] > 0
                              THEN [green_notified EXCEPT ![run.id] = @ + 1]
                              ELSE green_notified
         /\ fix_outcome' = "none"
         /\ UNCHANGED <<_fix_attempts, needs_attention>>
    ELSE /\ fix_outcome' = "none"
         /\ UNCHANGED <<_fix_attempts, _handled_runs, needs_attention, green_notified>>

\* PipelineMonitor.start
MonitorStart ==
    /\ ~_running
    /\ _running' = TRUE
    /\ UNCHANGED <<_fix_attempts, _handled_runs, latest_run, needs_attention,
                   green_notified, fail_streak, fix_outcome, cOthers>>

\* PipelineMonitor.stop
MonitorStop ==
    /\ _running
    /\ _running' = FALSE
    /\ UNCHANGED <<_fix_attempts, _handled_runs, latest_run, needs_attention,
                   green_notified, fail_streak, fix_outcome, cOthers>>

\* streaks longer than this are not told apart
StreakCap == 4

\* history bookkeeping of a poll: a streak starts at 1 when the run is seen
\* failed for the first time (no attempt counted, not handled), at 0 otherwise
Streak(run) ==
    IF run \in LatestRuns /\ run.status = "completed" /\ run.conclusion = "failure"
    THEN IF fail_streak.id = run.id
         THEN [id |-> run.id,
               n |-> IF fail_streak.n \in 1..(StreakCap - 1)
                     THEN fail_streak.n + 1 ELSE fail_streak.n]
         ELSE [id |-> run.id,
               n |-> IF _fix_attempts[run.id] = 0 /\ run.id \notin _handled_runs
                     THEN 1 ELSE 0]
    ELSE [id |-> 0, n |-> 0]

\* one iteration of _monitor_loop: the CI part
CheckCI ==
    /\ _running
    /\ \E run \in LatestRuns \cup {NoRun} :
          /\ latest_run' = run
          /\ fail_streak' = Streak(run)
          /\ _check_ci_status(run)
    /\ UNCHANGED <<_running, cOthers>>

CINext ==
    \/ MonitorStart
    \/ MonitorStop
    \/ CheckCI

SpecCI == Init /\ [][CINext]_vars

\* =========================================================== monitor registry

\* PipelineMonitor(master, github); await monitor.start(); _monitors[name] = monitor
StartNewMonitor(name) ==
    /\ nMonitors < MaxMonitors
    /\ nMonitors' = nMonitors + 1
    /\ mon_project' = [mon_project EXCEPT ![nMonitors + 1] = name]
    /\ _monitors' = [_monitors EXCEPT ![name] = nMonitors + 1]

\* _monitors[name] exists and is_running()
MonitorRunning(name) == _monitors[name] # 0 /\ mon_running[_monitors[name]]

\* handle_run_full_pipeline on the active project, the push succeeded
RunFullPipeline ==
    /\ StartNewMonitor(_active_project_name)
    /\ mon_running' = [mon_running EXCEPT ![nMonitors + 1] = TRUE]
    /\ UNCHANGED <<_active_project_name, mOthers>>

\* handle_switch_project(name): the monitor of the project that was active is
\* stopped, a new monitor is started for name
SwitchProject(name) ==
    /\ StartNewMonitor(name)
    /\ mon_running' = [m \in 1..MaxMonitors |->
                          IF m = nMonitors + 1 THEN TRUE
                          ELSE IF m = _monitors[_active_project_name] THEN FALSE
                          ELSE mon_running[m]]
    /\ _active_project_name' = name
    /\ UNCHANGED mOthers

\* _start_monitor: refused while the active project's monitor is running
StartMonitorCmd ==
    /\ ~MonitorRunning(_active_project_name)
    /\ StartNewMonitor(_active_project_name)
    /\ mon_running' = [mon_running EXCEPT ![nMonitors + 1] = TRUE]
    /\ UNCHANGED <<_active_project_name, mOthers>>

\* _stop_monitor
StopMonitorCmd ==
    /\ MonitorRunning(_active_project_name)
    /\ mon_running' = [mon_running EXCEPT ![_monitors[_active_project_name]] = FALSE]
    /\ UNCHANGED <<_active_project_name, _monitors, mon_project, nMonitors, mOthers>>

\* the current_project setter / load_project make another project active
ActivateProject(name) ==
    /\ name # _active_project_name
    /\ _active_project_name' = name
    /\ UNCHANGED <<_monitors, mon_running, mon_project, nMonitors, mOthers>>

RegNext ==
    \/ StartMonitorCmd
    \/ StopMonitorCmd
    \/ RunFullPipeline
    \/ \E name \in Projects : SwitchProject(name)
    \/ \E name \in Projects : ActivateProject(name)

SpecReg == Init /\ [][RegNext]_vars

\* ============================================== monitor loop, worker health

\* run_worker / run_qa_worker: a task is claimed, state working, start time now
HClaim(w) ==
    /\ pc[w] = "loop"
    /\ pc' = [pc EXCEPT ![w] = "exec"]
    /\ worker_states' = [worker_states EXCEPT ![w] = "working"]
    /\ task_start_times' = task_start_times \cup {w}
    /\ stale' = stale \ {w}
    /\ stall_notes' = [stall_notes EXCEPT ![w] = 0]
    /\ UNCHANGED <<last_iter, tick, sOthers>>

\* run_worker / run_qa_worker: the task is over, state idle, start time dropped
HFinish(w) ==
    /\ pc[w] = "exec"
    /\ pc' = [pc EXCEPT ![w] = "loop"]
    /\ worker_states' = [worker_states EXCEPT ![w] = "idle"]
    /\ task_start_times' = task_start_times \ {w}
    /\ stale' = stale \ {w}
    /\ UNCHANGED <<stall_notes, last_iter, tick, sOthers>>

\* WORKER_STALL_MINUTES pass since the start time of w
TimePasses(w) ==
    /\ w \in task_start_times
    /\ w \notin stale
    /\ stale' = stale \cup {w}
    /\ UNCHANGED <<worker_states, task_start_times, pc, stall_notes, last_iter,
                   tick, sOthers>>

\* what _check_worker_health treats as stalled
Stalled(w) ==
    /\ worker_states[w] = "working"
    /\ w \in task_start_times
    /\ w \in stale

\* mutation: the stalled worker is reported but not reset
_check_worker_health_NoReset ==
    /\ stall_notes' = [w \in WorkerAgents |->
                          IF Stalled(w) THEN stall_notes[w] + 1 ELSE stall_notes[w]]
    /\ UNCHANGED <<worker_states, task_start_times, stale>>

\* _check_worker_health: every stalled worker is reported, set to idle and its
\* start time dropped
_check_worker_health ==
    /\ stall_notes' = [w \in WorkerAgents |->
                          IF Stalled(w) THEN stall_notes[w] + 1 ELSE stall_notes[w]]
    /\ worker_states' = [w \in WorkerAgents |->
                            IF Stalled(w) THEN "idle" ELSE worker_states[w]]
    /\ task_start_times' = {w \in task_start_times : ~Stalled(w)}
    /\ stale' = {w \in stale : ~Stalled(w)}

\* one iteration of _monitor_loop: _check_ci_status, then _check_worker_health
\* in the same try block; when the CI check raises the health check is skipped
MonitorIteration ==
    /\ tick' = ~tick
    /\ \E ci_raised \in BOOLEAN :
          IF ci_raised
          THEN /\ last_iter' = "skipped"
               /\ UNCHANGED <<worker_states, task_start_times, stale, stall_notes>>
          ELSE /\ last_iter' = "checked"
               /\ _check_worker_health
    /\ UNCHANGED <<pc, sOthers>>

HealthNext ==
    \/ \E w \in WorkerAgents : HClaim(w)
    \/ \E w \in WorkerAgents : HFinish(w)
    \/ \E w \in WorkerAgents : TimePasses(w)
    \/ MonitorIteration

SpecHealth == Init /\ [][HealthNext]_vars

\* ============================ one worker loop: stop, broker outage, GitHub sync

\* the kind whose run_worker loop is followed step by step
LoopAgents == {"backend"}

\* the broker becomes unreachable / reachable again
BrokerDown ==
    /\ broker_up
    /\ broker_up' = FALSE
    /\ UNCHANGED <<daemon_running, saw_broker_error, labelled, last_sync, dvars, lOthers>>

BrokerUp ==
    /\ ~broker_up
    /\ broker_up' = TRUE
    /\ UNCHANGED <<daemon_running, saw_broker_error, labelled, last_sync, dvars, lOthers>>

\* assign_issue / send_message while the broker answers
LEnqueue ==
    /\ broker_up
    /\ \/ AssignIssue
       \/ AssignIssueToAgent

\* head of one iteration: while self._running, claim_next_task answered
LPoll(w) ==
    /\ daemon_running
    /\ broker_up
    /\ \/ PollEmpty(w)
       \/ PollClaim(w)
       \/ PollClaimError(w)

\* what the loop-level handler does with a broker error: state error, back off
LoopError(w) ==
    /\ worker_states' = [worker_states EXCEPT ![w] = "error"]
    /\ pc' = [pc EXCEPT ![w] = "backoff"]
    /\ cur' = [cur EXCEPT ![w] = NoTask]
    /\ has_pr' = has_pr \ {w}
    /\ saw_broker_error' = saw_broker_error \cup {w}
    /\ UNCHANGED <<queue, tracking, task_start_times, all_tasks_done_notified, nextId,
                   nAssigned, claimCount, deploys, fire_mark>>
    /\ nonDrainedSeen' = (nonDrainedSeen \/ ~Drained')
    /\ UNCHANGED <<daemon_running, broker_up, labelled, last_sync, lOthers>>

\* mutation: the loop ends on a broker error
LPollBrokerDown_Halts(w) ==
    /\ daemon_running
    /\ ~broker_up
    /\ pc[w] = "loop"
    /\ worker_states' = [worker_states EXCEPT ![w] = "stopped"]
    /\ pc' = [pc EXCEPT ![w] = "done"]
    /\ saw_broker_error' = saw_broker_error \cup {w}
    /\ UNCHANGED <<queue, tracking, task_start_times, all_tasks_done_notified, cur,
                   has_pr, nextId, nAssigned, claimCount, deploys, fire_mark>>
    /\ nonDrainedSeen' = (nonDrainedSeen \/ ~Drained')
    /\ UNCHANGED <<daemon_running, broker_up, labelled, last_sync, lOthers>>

\* head of one iteration: claim_next_task raises because the broker is down
LPollBrokerDown(w) ==
    /\ daemon_running
    /\ ~broker_up
    /\ pc[w] = "loop"
    /\ LoopError(w)

\* complete_task, fail_task or the hand-off raise because the broker is down;
\* the fail_task of the task-level handler raises too
LBrokerErrorMidTask(w) ==
    /\ ~broker_up
    /\ \/ pc[w] = "exec"
       \/ pc[w] = "sync_ok" /\ w \in {"backend", "frontend"} /\ w \in has_pr
    /\ LoopError(w)

\* steps of an iteration that talk to the broker, while it answers
LTaskStep(w) ==
    /\ broker_up
    /\ \/ ExecOk(w)
       \/ ExecFail(w)
       \/ AfterSync(w)
       \/ EnqueueQAReview(w)
       \/ EnqueueQAReviewRaises(w)

\* mutation: the label is set whatever the task names and GitHub answers
LSyncFailure_Always(w) ==
    /\ pc[w] = "diag"
    /\ pc' = [pc EXCEPT ![w] = "sync_fail"]
    /\ \E github_ok \in BOOLEAN :
          /\ last_sync' = IF cur[w].type = "msg" THEN "no_issue"
                          ELSE IF github_ok THEN "labelled" ELSE "gh_error"
          /\ labelled' = labelled \cup {WriteKey(cur[w])}
    /\ UNCHANGED <<queue, tracking, worker_states, task_start_times,
                   all_tasks_done_notified, cur, has_pr, nextId, nAssigned,
                   claimCount, deploys, fire_mark>>
    /\ nonDrainedSeen' = (nonDrainedSeen \/ ~Drained')
    /\ UNCHANGED <<daemon_running, broker_up, saw_broker_error, lOthers>>

\* the diagnosis came back (a text or the fallback text) and
\* _sync_github_on_failure ran: nothing for a task without repo_name or
\* issue_number, else comment and needs-attention label unless GitHub raises
LSyncFailure(w) ==
    /\ pc[w] = "diag"
    /\ pc' = [pc EXCEPT ![w] = "sync_fail"]
    /\ \E github_ok \in BOOLEAN :
          /\ last_sync' = IF cur[w].type = "msg" THEN "no_issue"
                          ELSE IF github_ok THEN "labelled" ELSE "gh_error"
          /\ labelled' = IF cur[w].type # "msg" /\ github_ok
                         THEN labelled \cup {WriteKey(cur[w])} ELSE labelled
    /\ UNCHANGED <<queue, tracking, worker_states, task_start_times,
                   all_tasks_done_notified, cur, has_pr, nextId, nAssigned,
                   claimCount, deploys, fire_mark>>
    /\ nonDrainedSeen' = (nonDrainedSeen \/ ~Drained')
    /\ UNCHANGED <<daemon_running, broker_up, saw_broker_error, lOthers>>

\* tail of the iteration after a failed task, the broker answers
LAfterSyncFail(w) ==
    /\ broker_up
    /\ pc[w] = "sync_fail"
    /\ UNCHANGED <<queue, tracking, nextId, nAssigned, claimCount>>
    /\ Finish(w)

\* tail of the iteration while the broker is down: _all_queues_empty swallows
\* the error and answers False, so the drain flag is cleared and nothing fires
LFinishBrokerDown(w) ==
    /\ ~broker_up
    /\ \/ pc[w] = "sync_fail"
       \/ pc[w] = "sync_ok" /\ ~(w \in {"backend", "frontend"} /\ w \in has_pr)
    /\ worker_states' = [worker_states EXCEPT ![w] = "idle"]
    /\ task_start_times' = task_start_times \ {w}
    /\ cur' = [cur EXCEPT ![w] = NoTask]
    /\ has_pr' = has_pr \ {w}
    /\ all_tasks_done_notified' = FALSE
    /\ pc' = [pc EXCEPT ![w] = "loop"]
    /\ UNCHANGED <<queue, tracking, nextId, nAssigned, claimCount, deploys, fire_mark>>
    /\ Seen(FALSE)

\* stop(): the flag is cleared and every worker task is cancelled in the same
\* step; the CancelledError ends the coroutine at the await it is suspended in
StopDaemon ==
    /\ daemon_running
    /\ daemon_running' = FALSE
    /\ pc' = [w \in WorkerAgents |-> IF w \in LoopAgents THEN "cancelled" ELSE pc[w]]
    /\ UNCHANGED <<queue, tracking, worker_states, task_start_times,
                   all_tasks_done_notified, cur, has_pr, nextId, nAssigned,
                   claimCount, deploys, nonDrainedSeen, fire_mark>>
    /\ UNCHANGED <<broker_up, saw_broker_error, labelled, last_sync, lOthers>>

LoopNext ==
    \/ BrokerDown
    \/ BrokerUp
    \/ LEnqueue
    \/ StopDaemon
    \/ \E w \in LoopAgents :
          \/ LPoll(w)
          \/ LPollBrokerDown(w)
          \/ Backoff(w)
          \/ LTaskStep(w)
          \/ LBrokerErrorMidTask(w)
          \/ LSyncFailure(w)
          \/ LAfterSyncFail(w)
          \/ LFinishBrokerDown(w)
          \/ DeployDone(w)

SpecLoop == Init /\ [][LoopNext]_vars

\* ================================================================== deployer

\* the list comprehension that drops the stale entry of a hostname
RECURSIVE WithoutHost(_, _)
WithoutHost(ing, hostname) ==
    IF ing = <<>> THEN <<>>
    ELSE IF Head(ing).hostname = hostname
         THEN WithoutHost(Tail(ing), hostname)
         ELSE <<Head(ing)>> \o WithoutHost(Tail(ing), hostname)

\* index (from 0) of the first entry without a hostname key, else len(ingress)
RECURSIVE catch_all_idx(_)
catch_all_idx(ing) ==
    IF ing = <<>> THEN 0
    ELSE IF Head(ing).hostname = "" THEN 0
         ELSE 1 + catch_all_idx(Tail(ing))

\* list.insert(i, e)
Insert(ing, i, e) == SubSeq(ing, 1, i) \o <<e>> \o SubSeq(ing, i + 1, Len(ing))

\* mutation: the new entry is appended after the catch-all
_update_cloudflared_config_Append(ing, hostname, port) ==
    LET kept == WithoutHost(ing, hostname)
        with == kept \o <<[hostname |-> hostname, port |-> port]>>
    IN  IF \E i \in 1..Len(with) : with[i].hostname = "" THEN with
        ELSE with \o <<CatchAll>>

\* mutation: the stale entry is kept
_update_cloudflared_config_KeepStale(ing, hostname, port) ==
    LET with == Insert(ing, catch_all_idx(ing), [hostname |-> hostname, port |-> port])
    IN  IF \E i \in 1..Len(with) : with[i].hostname = "" THEN with
        ELSE with \o <<CatchAll>>

\* mutation: the entry of a known hostname is rewritten where it stands
_update_cloudflared_config_InPlace(ing, hostname, port) ==
    IF \E i \in 1..Len(ing) : ing[i].hostname = hostname
    THEN [i \in 1..Len(ing) |-> IF ing[i].hostname = hostname
                                THEN [hostname |-> hostname, port |-> port]
                                ELSE ing[i]]
    ELSE LET with == Insert(ing, catch_all_idx(ing), [hostname |-> hostname, port |-> port])
         IN  IF \E i \in 1..Len(with) : with[i].hostname = "" THEN with
             ELSE with \o <<CatchAll>>

\* _update_cloudflared_config on the ingress list: drop the stale entry, insert
\* the new one before the catch-all, append a catch-all when there is none
_update_cloudflared_config(ing, hostname, port) ==
    LET kept == WithoutHost(ing, hostname)
        with == Insert(kept, catch_all_idx(kept), [hostname |-> hostname, port |-> port])
    IN  IF \E i \in 1..Len(with) : with[i].hostname = "" THEN with
        ELSE with \o <<CatchAll>>

\* the values of port_allocations.json
UsedPorts(alloc) == {alloc[n] : n \in {m \in DeployNames : alloc[m] # 0}}

\* mutation: the scan starts at the port after the start constant's successor
RECURSIVE _find_free_port_SkipsOne(_, _)
_find_free_port_SkipsOne(used, port) ==
    IF port + 1 \in used THEN _find_free_port_SkipsOne(used, port + 1) ELSE port

\* _find_free_port: the first port >= start that is not a value of the file
RECURSIVE _find_free_port(_, _)
_find_free_port(used, port) ==
    IF port \in used THEN _find_free_port(used, port + 1) ELSE port

\* deploy_project is called
StartDeploy(d, name) ==
    /\ nDeploys < MaxDeploys
    /\ deploy_call[d].pc \in {"idle", "done"}
    /\ deploy_call' = [deploy_call EXCEPT ![d] = [NoDeploy EXCEPT !.pc = "build",
                                                                  !.name = name]]
    /\ nDeploys' = nDeploys + 1
    /\ UNCHANGED <<port_allocations, ingress, containers, last_update, last_applied,
                   repeated, yOthers>>

\* docker build ends; on success the port is chosen and docker rm -f is awaited
BuildEnds(d) ==
    /\ deploy_call[d].pc = "build"
    /\ \E ok \in BOOLEAN :
          deploy_call' = [deploy_call EXCEPT ![d] =
              IF ok
              THEN [@ EXCEPT !.pc = "rm", !.build_ok = TRUE,
                             !.port = _find_free_port(UsedPorts(port_allocations),
                                                      PORT_START)]
              ELSE [@ EXCEPT !.pc = "done", !.note = "build"]]
    /\ UNCHANGED <<port_allocations, ingress, containers, nDeploys, last_update,
                   last_applied, repeated, yOthers>>

\* docker rm -f <name> ends: no container of that name is left
RmEnds(d) ==
    /\ deploy_call[d].pc = "rm"
    /\ containers' = [containers EXCEPT ![deploy_call[d].name] = 0]
    /\ deploy_call' = [deploy_call EXCEPT ![d].pc = "run"]
    /\ UNCHANGED <<port_allocations, ingress, nDeploys, last_update, last_applied,
                   repeated, yOthers>>

\* mutation: a failed route makes the deploy fail
SaveAndReturn_RouteFatal(d, route_ok) ==
    /\ port_allocations' = [port_allocations EXCEPT
                               ![deploy_call[d].name] = deploy_call[d].port]
    /\ deploy_call' = [deploy_call EXCEPT ![d] =
           [@ EXCEPT !.pc = "done", !.run_ok = TRUE, !.route_ok = route_ok,
                     !.success = route_ok,
                     !.note = IF route_ok THEN "" ELSE "route"]]

\* _save_port_allocation and the return of deploy_project; when the write
\* raises, the file is left as it was or left unreadable (read as empty), and
\* the handler of deploy_project returns a failed result
SaveAndReturn(d, route_ok) ==
    \E save_ok \in BOOLEAN :
        IF save_ok
        THEN /\ port_allocations' = [port_allocations EXCEPT
                                        ![deploy_call[d].name] = deploy_call[d].port]
             /\ deploy_call' = [deploy_call EXCEPT ![d] =
                    [@ EXCEPT !.pc = "done", !.run_ok = TRUE, !.route_ok = route_ok,
                              !.success = TRUE,
                              !.note = IF route_ok THEN "" ELSE "route"]]
        ELSE /\ \E truncated \in BOOLEAN :
                   port_allocations' = IF truncated THEN [n \in DeployNames |-> 0]
                                       ELSE port_allocations
             /\ deploy_call' = [deploy_call EXCEPT ![d] =
                    [@ EXCEPT !.pc = "done", !.run_ok = TRUE, !.route_ok = route_ok,
                              !.raised = TRUE, !.port = 0, !.note = "exception"]]

\* docker run ends; docker refuses a host port another container is bound to.
\* On success _add_cloudflare_route rewrites the config and awaits the DNS
\* command, or the rewrite raises and the route has failed
RunEnds(d) ==
    /\ deploy_call[d].pc = "run"
    /\ \E ok \in BOOLEAN :
          IF ok /\ \A n \in DeployNames : containers[n] # deploy_call[d].port
          THEN /\ containers' = [containers EXCEPT
                                    ![deploy_call[d].name] = deploy_call[d].port]
               /\ \E config_ok \in BOOLEAN :
                     IF config_ok
                     THEN /\ ingress' = _update_cloudflared_config(
                                            ingress, deploy_call[d].name,
                                            deploy_call[d].port)
                          /\ deploy_call' = [deploy_call EXCEPT
                                                ![d] = [@ EXCEPT !.pc = "dns",
                                                                 !.run_ok = TRUE]]
                          /\ last_update' = [last_update EXCEPT
                                                ![deploy_call[d].name] = deploy_call[d].port]
                          /\ last_applied' = [hostname |-> deploy_call[d].name,
                                              port |-> deploy_call[d].port]
                          /\ repeated' = (last_applied = last_applied')
                          /\ UNCHANGED port_allocations
                     ELSE /\ UNCHANGED <<ingress, last_update, last_applied, repeated>>
                          /\ SaveAndReturn(d, FALSE)
          ELSE /\ deploy_call' = [deploy_call EXCEPT
                                     ![d] = [@ EXCEPT !.pc = "done", !.note = "run"]]
               /\ UNCHANGED <<port_allocations, ingress, containers, last_update,
                              last_applied, repeated>>
    /\ UNCHANGED <<nDeploys, yOthers>>

\* cloudflared tunnel route dns ends
DnsEnds(d) ==
    /\ deploy_call[d].pc = "dns"
    /\ \E ok \in BOOLEAN :
          IF ok
          THEN /\ deploy_call' = [deploy_call EXCEPT ![d].pc = "reload"]
               /\ UNCHANGED port_allocations
          ELSE SaveAndReturn(d, FALSE)
    /\ UNCHANGED <<ingress, containers, nDeploys, last_update, last_applied, repeated,
                   yOthers>>

\* systemctl reload cloudflared ends
ReloadEnds(d) ==
    /\ deploy_call[d].pc = "reload"
    /\ \E ok \in BOOLEAN : SaveAndReturn(d, ok)
    /\ UNCHANGED <<ingress, containers, nDeploys, last_update, last_applied, repeated,
                   yOthers>>

DeployNext ==
    \E d \in Deployers :
        \/ \E name \in DeployNames : StartDeploy(d, name)
        \/ BuildEnds(d)
        \/ RmEnds(d)
        \/ RunEnds(d)
        \/ DnsEnds(d)
        \/ ReloadEnds(d)

SpecDeploy == Init /\ [][DeployNext]_vars

\* =========================================================== retry decorators

RECURSIVE Pow(_, _)
Pow(b, n) == IF n = 0 THEN 1 ELSE b * Pow(b, n - 1)

\* min(base_delay * exponential_base ** attempt, max_delay) in sixteenths of a
\* second: base 1, factor 2, cap 60 by default; base 60, factor 1.5, cap 300
\* for the rate-limit decorator
Delay(kind, attempt_no) ==
    IF kind = "rate_limit"
    THEN LET v == (16 * 60 * Pow(3, attempt_no)) \div Pow(2, attempt_no)
         IN  IF v < 16 * 300 THEN v ELSE 16 * 300
    ELSE LET v == 16 * Pow(2, attempt_no)
         IN  IF v < 16 * 60 THEN v ELSE 16 * 60

\* the wrapper is entered: first call of the wrapped function
WrapperCalled(kind, max) ==
    /\ nWrapped < MaxWrapped
    /\ wrapped.pc \in {"idle", "returned", "raised"}
    /\ wrapped' = [pc |-> "call", kind |-> kind, max_retries |-> max, attempt |-> 0,
                   delay |-> 0]
    /\ func_calls' = 1
    /\ nWrapped' = nWrapped + 1
    /\ UNCHANGED rOthers

\* the wrapped function returns: the wrapper returns its result
FuncReturns ==
    /\ wrapped.pc = "call"
    /\ wrapped' = [wrapped EXCEPT !.pc = "returned"]
    /\ UNCHANGED <<func_calls, nWrapped, rOthers>>

\* the wrapped function raises an exception outside the `exceptions` tuple,
\* which only the rate-limit decorator narrows: it leaves the wrapper at once
FuncRaisesOther ==
    /\ wrapped.pc = "call"
    /\ wrapped.kind = "rate_limit"
    /\ wrapped' = [wrapped EXCEPT !.pc = "raised"]
    /\ UNCHANGED <<func_calls, nWrapped, rOthers>>

\* mutation: the last attempt is the one numbered max_retries - 1
FuncRaises_OneLess ==
    /\ wrapped.pc = "call"
    /\ wrapped' = IF wrapped.attempt >= wrapped.max_retries - 1
                  THEN [wrapped EXCEPT !.pc = "raised"]
                  ELSE [wrapped EXCEPT !.pc = "sleep",
                                       !.delay = Delay(wrapped.kind, wrapped.attempt)]
    /\ UNCHANGED <<func_calls, nWrapped, rOthers>>

\* the wrapped function raises one of `exceptions`: re-raise on the last
\* attempt (attempt = max_retries), else compute the delay and sleep
FuncRaises ==
    /\ wrapped.pc = "call"
    /\ wrapped' = IF wrapped.attempt = wrapped.max_retries
                  THEN [wrapped EXCEPT !.pc = "raised"]
                  ELSE [wrapped EXCEPT !.pc = "sleep",
                                       !.delay = Delay(wrapped.kind, wrapped.attempt)]
    /\ UNCHANGED <<func_calls, nWrapped, rOthers>>

\* the sleep ends: next attempt, next call of the wrapped function
RetrySleepEnds ==
    /\ wrapped.pc = "sleep"
    /\ wrapped' = [wrapped EXCEPT !.pc = "call", !.attempt = @ + 1]
    /\ func_calls' = func_calls + 1
    /\ UNCHANGED <<nWrapped, rOthers>>

RetryNext ==
    \/ \E max \in RetryArgs : WrapperCalled("default", max)
    \/ WrapperCalled("rate_limit", RateLimitRetries)
    \/ FuncReturns
    \/ FuncRaisesOther
    \/ FuncRaises
    \/ RetrySleepEnds

SpecRetry == Init /\ [][RetryNext]_vars

\* ================================================= sorted set, order among ties

\* score given to ZADD: float(issue_number) for an issue task, the priority
\* of the message for a queue-mode message (1 at the only call site)
Score(m) == IF m.kind = "msg" THEN MessagePriority ELSE m.issue

\* rank of the repository name in byte order
RepoRank(repo) == IF repo = "a-repo" THEN 1 ELSE 2

\* what decides the byte order of two serialized members of equal score: a
\* message starts {"message_id": "<uuid>", a task {"task_type": ..., "repo_name":
\* ..., "issue_number": ..., "project_path": ..., "assigned_at": ...; 'm' < 't'
SortKey(m) ==
    IF m.kind = "msg" THEN <<0, m.uuid, 0, 0>>
    ELSE <<1, RepoRank(m.repo), m.issue, m.seq>>

\* byte order of two sort keys
LexLess(a, b) ==
    \E i \in 1..4 : a[i] < b[i] /\ \A j \in 1..(i - 1) : a[j] = b[j]

\* mutation: among equal scores the member added last is returned
zpopmin_Newest(z) ==
    CHOOSE m \in z : \A f \in z \ {m} :
        \/ Score(m) < Score(f)
        \/ Score(m) = Score(f) /\ m.seq > f.seq

\* ZPOPMIN: lowest score, and among equal scores the member lowest in byte order
zpopmin(z) ==
    CHOOSE m \in z : \A f \in z \ {m} :
        \/ Score(m) < Score(f)
        \/ Score(m) = Score(f) /\ LexLess(SortKey(m), SortKey(f))

\* assign_issue: ZADD of the serialized task
TieAssignIssue(repo, issue) ==
    /\ zseq < MaxEnqueues
    /\ zset' = zset \cup {[kind |-> "task", repo |-> repo, issue |-> issue,
                           uuid |-> 0, seq |-> zseq + 1]}
    /\ zseq' = zseq + 1
    /\ UNCHANGED <<popped, qOthers>>

\* send_message with use_queue: ZADD of the serialized message, fresh uuid4
TieSendMessage(uuid) ==
    /\ zseq < MaxEnqueues
    /\ \A m \in zset : m.uuid # uuid
    /\ \A i \in 1..Len(popped) : popped[i].uuid # uuid
    /\ zset' = zset \cup {[kind |-> "msg", repo |-> "", issue |-> 0,
                           uuid |-> uuid, seq |-> zseq + 1]}
    /\ zseq' = zseq + 1
    /\ UNCHANGED <<popped, qOthers>>

\* claim_next_task on a non-empty set
TieClaim ==
    /\ zset # {}
    /\ popped' = Append(popped, zpopmin(zset))
    /\ zset' = zset \ {zpopmin(zset)}
    /\ UNCHANGED <<zseq, qOthers>>

TieNext ==
    \/ \E repo \in TieRepos, issue \in TieIssues : TieAssignIssue(repo, issue)
    \/ \E uuid \in Uuids : TieSendMessage(uuid)
    \/ TieClaim

SpecTie == Init /\ [][TieNext]_vars

\* ================================================== tracking record, expiry

\* HSET on the key: an existing key keeps its expiry, a new key has none
hset_ttl == IF rec_ttl = NoKey THEN NoExpiry ELSE rec_ttl

\* assign_issue: zadd, hset(status=pending), expire(7 days)
TtlAssign ==
    /\ ~in_queue
    /\ in_queue' = TRUE
    /\ rec_status' = "pending"
    /\ rec_ttl' = TTL_DAYS
    /\ since_write' = 0
    /\ since_enqueue' = 0
    /\ last_op' = "enqueue"
    /\ UNCHANGED <<claimed, days, tOthers>>

\* mutation: the claim sets the expiry again
TtlClaim_Expire ==
    /\ in_queue
    /\ ~claimed
    /\ in_queue' = FALSE
    /\ claimed' = TRUE
    /\ rec_status' = "in_progress"
    /\ rec_ttl' = TTL_DAYS
    /\ since_write' = 0
    /\ last_op' = "claim"
    /\ UNCHANGED <<since_enqueue, days, tOthers>>

\* claim_next_task: zpopmin, hset(status=in_progress), no expire
TtlClaim ==
    /\ in_queue
    /\ ~claimed
    /\ in_queue' = FALSE
    /\ claimed' = TRUE
    /\ rec_status' = "in_progress"
    /\ rec_ttl' = hset_ttl
    /\ since_write' = 0
    /\ last_op' = "claim"
    /\ UNCHANGED <<since_enqueue, days, tOthers>>

\* complete_task: hset(status=completed), no expire
TtlComplete ==
    /\ claimed
    /\ claimed' = FALSE
    /\ rec_status' = "completed"
    /\ rec_ttl' = hset_ttl
    /\ since_write' = 0
    /\ last_op' = "complete"
    /\ UNCHANGED <<in_queue, since_enqueue, days, tOthers>>

\* fail_task: hset(status=failed), no expire
TtlFail ==
    /\ claimed
    /\ claimed' = FALSE
    /\ rec_status' = "failed"
    /\ rec_ttl' = hset_ttl
    /\ since_write' = 0
    /\ last_op' = "fail"
    /\ UNCHANGED <<in_queue, since_enqueue, days, tOthers>>

\* a day passes; the broker removes a key whose expiry has run out
DayPasses ==
    /\ days < MaxDays
    /\ days' = days + 1
    /\ since_write' = IF since_write < AgeCap THEN since_write + 1 ELSE since_write
    /\ since_enqueue' = IF since_enqueue < AgeCap THEN since_enqueue + 1
                        ELSE since_enqueue
    /\ IF rec_ttl = 1
       THEN /\ rec_status' = "absent"
            /\ rec_ttl' = NoKey
            /\ last_op' = "expire"
       ELSE /\ rec_ttl' = IF rec_ttl > 1 THEN rec_ttl - 1 ELSE rec_ttl
            /\ last_op' = "tick"
            /\ UNCHANGED rec_status
    /\ UNCHANGED <<in_queue, claimed, tOthers>>

TtlNext ==
    \/ TtlAssign
    \/ TtlClaim
    \/ TtlComplete
    \/ TtlFail
    \/ DayPasses

SpecTtl == Init /\ [][TtlNext]_vars

\* ============================================ metadata and ingress files

\* open(path, "w"): the file is created or truncated in place
OpenForWrite(f) ==
    /\ file_writer[f] = "idle"
    /\ nWrites[f] < MaxWrites
    /\ nWrites' = [nWrites EXCEPT ![f] = @ + 1]
    /\ file_len' = [file_len EXCEPT ![f] = 0]
    /\ file_writer' = [file_writer EXCEPT ![f] = "writing"]
    /\ UNCHANGED <<observed, fOthers>>

\* json.dump / yaml.dump: the buffer is flushed while the dump goes on
FlushChunk(f) ==
    /\ file_writer[f] = "writing"
    /\ file_len[f] < FileChunks - 1
    /\ file_len' = [file_len EXCEPT ![f] = @ + 1]
    /\ UNCHANGED <<file_writer, nWrites, observed, fOthers>>

\* end of the with block: the rest of the dump is flushed, the file is closed
CloseFile(f) ==
    /\ file_writer[f] = "writing"
    /\ file_len' = [file_len EXCEPT ![f] = FileChunks]
    /\ file_writer' = [file_writer EXCEPT ![f] = "idle"]
    /\ UNCHANGED <<nWrites, observed, fOthers>>

\* the process dies while the file is open: the file stays as it is
CrashWhileWriting(f) ==
    /\ file_writer[f] = "writing"
    /\ file_writer' = [file_writer EXCEPT ![f] = "idle"]
    /\ UNCHANGED <<file_len, nWrites, observed, fOthers>>

\* load_project, _update_cloudflared_config or cloudflared read the file
ReadFile(f) ==
    /\ file_len[f] # NoFile
    /\ observed' = [observed EXCEPT ![f] = file_len[f]]
    /\ UNCHANGED <<file_len, file_writer, nWrites, fOthers>>

FileNext ==
    \E f \in Files :
        \/ OpenForWrite(f)
        \/ FlushChunk(f)
        \/ CloseFile(f)
        \/ CrashWhileWriting(f)
        \/ ReadFile(f)

SpecFile == Init /\ [][FileNext]_vars

\* ========================================= deploys and polls of the master

\* handle_deploy_project up to the await of deploy_project: path and name of
\* the active project are read into locals
handle_deploy_project(kind, original) ==
    /\ master_deploy.pc = "idle"
    /\ nMasterDeploys < MaxMasterDeploys
    /\ nMasterDeploys' = nMasterDeploys + 1
    /\ master_deploy' = [pc |-> "deploying", kind |-> kind,
                         name |-> _active_project_name', original |-> original,
                         success |-> FALSE]
    /\ UNCHANGED <<deploy_url, saved_url, polled>>

\* !deploy on the active project
HandleDeployStart ==
    /\ UNCHANGED mvars
    /\ handle_deploy_project("handle", "none")
    /\ UNCHANGED pRest

\* _auto_deploy up to the await of deploy_project: the project dict is kept
AutoDeployStart ==
    /\ UNCHANGED mvars
    /\ handle_deploy_project("auto", "none")
    /\ UNCHANGED pRest

\* deploy_project_route: the project of the route is made active, the active
\* one is remembered, handle_deploy_project is awaited
RouteDeployStart(name) ==
    /\ _active_project_name' = name
    /\ UNCHANGED <<_monitors, mon_running, mon_project, nMonitors>>
    /\ handle_deploy_project("route", _active_project_name)
    /\ UNCHANGED pRest

\* save_project_metadata: the record of the active project goes to its file
save_project_metadata(urls, active) ==
    saved_url' = [saved_url EXCEPT ![active] = urls[active]]

\* deploy_project returns: on success handle_deploy_project writes the URL to
\* current_project, _auto_deploy to the dict it kept; both save the metadata
\* of the project that is active now; the route then restores the active name
DeployReturns(ok) ==
    /\ master_deploy.pc = "deploying"
    /\ master_deploy' = [master_deploy EXCEPT !.pc = "idle", !.success = ok]
    /\ IF ok
       THEN /\ deploy_url' = [deploy_url EXCEPT
                                 ![IF master_deploy.kind = "auto"
                                   THEN master_deploy.name
                                   ELSE _active_project_name] = master_deploy.name]
            /\ save_project_metadata(deploy_url', _active_project_name)
       ELSE UNCHANGED <<deploy_url, saved_url>>
    /\ IF master_deploy.kind = "route"
       THEN _active_project_name' = master_deploy.original
       ELSE UNCHANGED _active_project_name
    /\ UNCHANGED <<_monitors, mon_running, mon_project, nMonitors>>
    /\ UNCHANGED <<nMasterDeploys, polled>>
    /\ UNCHANGED pRest

\* _check_ci_status of a running monitor: the repository is read from
\* master.current_project at the poll
MonitorPoll(m) ==
    /\ mon_running[m]
    /\ polled' = [m |-> m, repo |-> _active_project_name]
    /\ UNCHANGED <<deploy_url, saved_url, master_deploy, nMasterDeploys>>
    /\ UNCHANGED pOthers

ProjNext ==
    \/ StartMonitorCmd
    \/ StopMonitorCmd
    \/ RunFullPipeline
    \/ \E name \in Projects : SwitchProject(name)
    \/ \E name \in Projects : ActivateProject(name)
    \/ HandleDeployStart
    \/ AutoDeployStart
    \/ \E name \in Projects : RouteDeployStart(name)
    \/ \E ok \in BOOLEAN : DeployReturns(ok)
    \/ \E m \in 1..MaxMonitors : MonitorPoll(m)

SpecProj == Init /\ [][ProjNext]_vars

\* =========================================== validation before the push

\* the value of passed after one run: pytest looks at the exit code, jest also
\* at the word "failed" in the output; pytest is tried first
Passed(has_pytest, outcome) ==
    IF has_pytest THEN outcome \in {"rc0", "rc0_failed_word"}
    ELSE outcome = "rc0"

\* implement_feature up to the first test run; without a test framework
\* _validate_implementation returns at once
ImplementStart(has_pytest, has_jest) ==
    /\ impl.pc \in {"idle", "done"}
    /\ nImplementations < MaxImplementations
    /\ nImplementations' = nImplementations + 1
    /\ impl' = [NoImplementation EXCEPT
                   !.has_pytest = has_pytest, !.has_jest = has_jest,
                   !.pc = IF has_pytest \/ has_jest THEN "run1" ELSE "commit"]
    /\ UNCHANGED aOthers

\* the first run ends: timeout and missing binary are logged and validation
\* returns; a pass returns; a failure goes to the fix call
FirstRun(outcome) ==
    /\ impl.pc = "run1"
    /\ impl' = [impl EXCEPT
                   !.first = outcome,
                   !.pc = IF outcome \in {"timeout", "not_found"} THEN "commit"
                          ELSE IF Passed(impl.has_pytest, outcome) THEN "commit"
                          ELSE "fix"]
    /\ UNCHANGED <<nImplementations, aOthers>>

\* call_claude_code with the test output returns or raises
FixEnds(ok) ==
    /\ impl.pc = "fix"
    /\ impl' = IF ok THEN [impl EXCEPT !.pc = "run2"]
               ELSE [impl EXCEPT !.pc = "done", !.raised = TRUE]
    /\ UNCHANGED <<nImplementations, aOthers>>

\* mutation: a timeout of the re-run is skipped like one of the first run
SecondRun_TimeoutSkips(outcome) ==
    /\ impl.pc = "run2"
    /\ impl' = IF outcome \in {"timeout", "not_found"}
                  \/ Passed(impl.has_pytest, outcome)
               THEN [impl EXCEPT !.second = outcome, !.pc = "commit"]
               ELSE [impl EXCEPT !.second = outcome, !.pc = "done", !.raised = TRUE]
    /\ UNCHANGED <<nImplementations, aOthers>>

\* the re-run ends: timeout and missing binary leave passed False; RuntimeError
\* unless passed
SecondRun(outcome) ==
    /\ impl.pc = "run2"
    /\ impl' = IF outcome \notin {"timeout", "not_found"}
                  /\ Passed(impl.has_pytest, outcome)
               THEN [impl EXCEPT !.second = outcome, !.pc = "commit"]
               ELSE [impl EXCEPT !.second = outcome, !.pc = "done", !.raised = TRUE]
    /\ UNCHANGED <<nImplementations, aOthers>>

\* _commit_and_push returns or raises
CommitAndPush(ok) ==
    /\ impl.pc = "commit"
    /\ impl' = IF ok THEN [impl EXCEPT !.pc = "pr", !.pushed = TRUE]
               ELSE [impl EXCEPT !.pc = "done", !.raised = TRUE]
    /\ UNCHANGED <<nImplementations, aOthers>>

\* _create_pull_request returns or raises
CreatePullRequest(ok) ==
    /\ impl.pc = "pr"
    /\ impl' = IF ok THEN [impl EXCEPT !.pc = "done", !.pr = TRUE]
               ELSE [impl EXCEPT !.pc = "done", !.raised = TRUE]
    /\ UNCHANGED <<nImplementations, aOthers>>

ValidateNext ==
    \/ \E has_pytest \in BOOLEAN : \E has_jest \in BOOLEAN :
          ImplementStart(has_pytest, has_jest)
    \/ \E outcome \in RunOutcomes : FirstRun(outcome)
    \/ \E ok \in BOOLEAN : FixEnds(ok)
    \/ \E outcome \in RunOutcomes : SecondRun(outcome)
    \/ \E ok \in BOOLEAN : CommitAndPush(ok)
    \/ \E ok \in BOOLEAN : CreatePullRequest(ok)

SpecValidate == Init /\ [][ValidateNext]_vars

\* ====================================================== task kinds, dispatch

\* the keys of the handlers dict of each agent's execute_task
Handlers(agent) ==
    CASE agent = "backend"  -> {"implement_feature", "fix_bug", "write_tests", "refactor"}
      [] agent = "frontend" -> {"implement_feature", "fix_bug", "improve_ui"}
      [] agent = "database" -> {"design_schema", "create_migrations", "optimize_queries",
                                "create_seed_data", "validate_integrity"}
      [] agent = "devops"   -> {"setup_cicd", "create_dockerfile", "create_docker_compose",
                                "setup_deployment", "create_health_checks"}
      [] agent = "qa"       -> {"review_pr", "run_tests", "check_coverage", "validate_pr"}

\* the default of task.get("task_type", <default>) in each execute_task
DefaultTaskType(agent) ==
    CASE agent = "backend"  -> "implement_feature"
      [] agent = "frontend" -> "implement_feature"
      [] agent = "database" -> "design_schema"
      [] agent = "devops"   -> "setup_cicd"
      [] agent = "qa"       -> "review_pr"

\* execute_task finds a handler for the entry
Accepts(agent, task_type) ==
    (IF task_type = NoTaskType THEN DefaultTaskType(agent) ELSE task_type)
        \in Handlers(agent)

\* zadd of one entry on queue:agent:<agent>
KEnqueue(agent, task_type) ==
    /\ nKindEnqueues' = nKindEnqueues + 1
    /\ kind_queue' = [kind_queue EXCEPT
                         ![agent] = @ \cup {[task_type |-> task_type,
                                             n |-> nKindEnqueues + 1]}]

\* assign_issue(repo, issue, agent_type) for the kind classify_issue chose:
\* the task kind is the literal "implement_feature"
KAssignIssue(agent_type) ==
    /\ nKindEnqueues < MaxKindEnqueues
    /\ KEnqueue(agent_type, "implement_feature")
    /\ UNCHANGED <<dispatched, kOthers>>

\* send_message(use_queue=True): the message dict has no task_type key
KSendMessage(recipient) ==
    /\ nKindEnqueues < MaxKindEnqueues
    /\ KEnqueue(recipient, NoTaskType)
    /\ UNCHANGED <<dispatched, kOthers>>

\* the worker of the kind claims an entry and calls execute_task
KExecute(agent) ==
    /\ \E e \in kind_queue[agent] :
          /\ kind_queue' = [kind_queue EXCEPT ![agent] = @ \ {e}]
          /\ dispatched' = [agent |-> agent, task_type |-> e.task_type,
                            accepted |-> Accepts(agent, e.task_type)]
    /\ UNCHANGED <<nKindEnqueues, kOthers>>

KindNext ==
    \/ \E agent_type \in QueueAgentTypes : KAssignIssue(agent_type)
    \/ \E recipient \in QueueAgentTypes : KSendMessage(recipient)
    \/ \E agent \in QueueAgentTypes : KExecute(agent)

SpecKinds == Init /\ [][KindNext]_vars

\* ================================================================ claims

\* every entry enqueued so far has been returned by claim_next_task exactly once
AllClaimedOnce == \A i \in 1..MaxId : i < nextId => claimCount[i] = 1

C3_TerminalStatusKept ==
    [][\A k \in Keys :
          tracking[k] \in {"completed", "failed"} => tracking'[k] = tracking[k]]_vars

\* C4: a record goes pending -> in_progress only in a claim_next_task step that
\* popped an entry with that key, and in_progress -> completed/failed only in a
\* step of a worker whose claimed task has that key.
C4_TransitionsOwned ==
    [][\A k \in Keys :
          /\ (tracking[k] = "pending" /\ tracking'[k] = "in_progress") =>
                \E w \in WorkerAgents : \E e \in queue[w] \ queue'[w] :
                    /\ ClaimKey(e) = k
                    /\ claimCount'[e.id] = claimCount[e.id] + 1
          /\ (tracking[k] = "in_progress" /\ tracking'[k] \in {"completed", "failed"}) =>
                \E w \in WorkerAgents :
                    /\ pc[w] \in {"exec", "sync_ok"}
                    /\ pc'[w] # pc[w]
                    /\ cur[w] # NoTask
                    /\ claimCount[cur[w].id] >= 1
                    /\ (IF cur[w].type = "msg" THEN ZeroKey ELSE cur[w].issue) = k]_vars

C4_Witness ==
    /\ pc["backend"] = "sync_ok"
    /\ cur["backend"].type = "task"
    /\ tracking[cur["backend"].issue] = "completed"

\* C5: every entry in an agent's queue has a tracking record with status pending.
C5_QueuedIsPending ==
    \A k \in QueueAgentTypes : \A e \in queue[k] : tracking[ClaimKey(e)] = "pending"

C7_SecondDrainFires ==
    [][\A w \in WorkerAgents :
          ( /\ deploys >= 1
            /\ cur[w] # NoTask
            /\ cur[w].id >= fire_mark
            /\ cur'[w] = NoTask
            /\ \/ pc[w] = "sync_ok"
               \/ pc[w] = "exec" /\ tracking'[WriteKey(cur[w])] = "completed"
            /\ Drained' )
          => deploys' = deploys + 1]_vars

\* C8: one call of the envelope starts the main invocation at most three times
\* and the diagnose-and-fix invocation at most twice.
C8_AtMostTwoDiagnoses ==
    \A c \in Calls : mainCount[c] <= max_retries /\ healCount[c] <= max_retries - 1

\* C9 as stated: in every step in which a call returns or raises, the healing
\* flag of the agent is false afterwards.
C9_FlagFalseOnReturn ==
    [][\A c \in Calls :
          (hpc[c] \notin Done /\ hpc'[c] \in Done) => ~_is_healing']_vars

\* C9, amended: in every step in which a call returns or raises, the healing
\* flag is false afterwards unless another call on the same agent instance is
\* inside its diagnose-and-fix invocation; the flag is set exactly while some
\* call is inside that invocation.
C9_FlagFalseUnlessOtherHeals ==
    /\ [][\A c \in Calls :
             (hpc[c] \notin Done /\ hpc'[c] \in Done) =>
                (_is_healing' => \E d \in Calls \ {c} : hpc'[d] = "heal")]_vars
    /\ [](_is_healing <=> \E d \in Calls : hpc[d] = "heal")

C9_Witness ==
    \E c \in Calls :
        /\ hpc[c] = "raised"
        /\ healCount[c] >= 1
        /\ ~_is_healing
        /\ \E d \in Calls \ {c} : hpc[d] \in {"main", "sleep"}

\* C10 as stated: a run whose fix-attempt count has reached the maximum and
\* that is marked handled has had its needs-attention notification exactly once.
C10_AtMaxNotifiedOnce ==
    \A r \in Runs :
        (_fix_attempts[r] >= MAX_FIX_ATTEMPTS /\ r \in _handled_runs)
            => needs_attention[r] = 1

\* C10, amended: the count never exceeds the maximum; a poll that sees a
\* completed, failed, not yet handled run whose count is at the maximum marks
\* it handled and emits the needs-attention notification; that notification is
\* emitted at most once per run, only for a handled run at the maximum; and a
\* handled run stays handled.
C10_GiveUpOnce ==
    /\ [](\A r \in Runs :
             /\ _fix_attempts[r] <= MAX_FIX_ATTEMPTS
             /\ needs_attention[r] <= 1
             /\ needs_attention[r] = 1 =>
                   (r \in _handled_runs /\ _fix_attempts[r] = MAX_FIX_ATTEMPTS))
    /\ [][\A r \in Runs :
             /\ r \in _handled_runs => r \in _handled_runs'
             /\ ( /\ _running
                  /\ _running'
                  /\ r \notin _handled_runs
                  /\ _fix_attempts[r] = MAX_FIX_ATTEMPTS
                  /\ latest_run' = [id |-> r, status |-> "completed",
                                    conclusion |-> "failure"] )
                => (r \in _handled_runs' /\ needs_attention'[r] = needs_attention[r] + 1)]_vars

C10_Witness ==
    \E r \in Runs :
        /\ needs_attention[r] = 1
        /\ r \in _handled_runs
        /\ latest_run = [id |-> r, status |-> "completed", conclusion |-> "failure"]

\* a poll has just seen run r completed with failure
SawFailure(r) ==
    /\ _running
    /\ _running'
    /\ latest_run' = [id |-> r, status |-> "completed", conclusion |-> "failure"]
    /\ fail_streak'.id = r

\* C11 as stated: of consecutive polls that see the same run completed with
\* failure, the first two enter the fix (the attempt is counted), the third
\* enters no fix, emits the needs-attention notification and marks the run
\* handled, and every later one changes nothing.
C11_ThirdObservationGivesUp ==
    [][\A r \in Runs : SawFailure(r) =>
          /\ fail_streak'.n \in {1, 2} => _fix_attempts'[r] = _fix_attempts[r] + 1
          /\ fail_streak'.n = 3 =>
                /\ _fix_attempts'[r] = _fix_attempts[r]
                /\ needs_attention'[r] = needs_attention[r] + 1
                /\ r \in _handled_runs'
          /\ ( fail_streak'.n = 4 /\ fail_streak.n = 4 ) =>
                UNCHANGED <<_fix_attempts, _handled_runs, needs_attention>>]_vars

\* C11, amended: of consecutive polls that see the same run completed with
\* failure, each of the first three that finds the run not handled enters the
\* fix and counts the attempt without a needs-attention notification; a
\* successful push marks the run handled at once; the fourth, when no push
\* succeeded, enters no fix, emits the needs-attention notification and marks
\* the run handled; every observation of a handled run changes nothing.
C11_FourthObservationGivesUp ==
    [][\A r \in Runs : SawFailure(r) =>
          /\ ( fail_streak'.n \in 1..3 /\ r \notin _handled_runs ) =>
                /\ _fix_attempts'[r] = fail_streak'.n
                /\ needs_attention'[r] = needs_attention[r]
          /\ ( fail_streak'.n = 4 /\ r \notin _handled_runs ) =>
                /\ _fix_attempts'[r] = _fix_attempts[r]
                /\ needs_attention'[r] = needs_attention[r] + 1
                /\ r \in _handled_runs'
          /\ r \in _handled_runs =>
                UNCHANGED <<_fix_attempts, _handled_runs, needs_attention,
                            green_notified>>]_vars

C11_Witness ==
    \E r \in Runs :
        /\ fail_streak = [id |-> r, n |-> 4]
        /\ _fix_attempts[r] = MAX_FIX_ATTEMPTS
        /\ needs_attention[r] = 1

\* C12 as stated: a poll that handles a failing run whose count is below the
\* maximum increments the count and leaves the run not handled.
C12_FixNeverMarksHandled ==
    [][\A r \in Runs :
          ( SawFailure(r) /\ r \notin _handled_runs
            /\ _fix_attempts[r] < MAX_FIX_ATTEMPTS ) =>
             /\ _fix_attempts'[r] = _fix_attempts[r] + 1
             /\ r \notin _handled_runs']_vars

\* C12, amended: a poll that sees a failing, not handled run whose count is
\* below the maximum enters the fix and increments the count; the run is
\* marked handled exactly when the fix was pushed; otherwise it stays not
\* handled, so the next poll that sees it failing enters the fix again.
C12_FixMarksHandledOnlyOnPush ==
    [][\A r \in Runs :
          ( SawFailure(r) /\ r \notin _handled_runs
            /\ _fix_attempts[r] < MAX_FIX_ATTEMPTS ) =>
             /\ _fix_attempts'[r] = _fix_attempts[r] + 1
             /\ fix_outcome' \in FixOutcomes
             /\ r \in _handled_runs' <=> fix_outcome' = "pushed"]_vars

C12_Witness ==
    \E r \in Runs :
        /\ latest_run = [id |-> r, status |-> "completed", conclusion |-> "failure"]
        /\ fix_outcome = "push_failed"
        /\ _fix_attempts[r] = 2
        /\ r \notin _handled_runs

\* C13: at every moment each project of the registry has at most one running
\* monitor loop.
C13_OneMonitorPerProject ==
    \A p \in Projects :
        Cardinality({m \in 1..MaxMonitors : mon_project[m] = p /\ mon_running[m]}) <= 1

C15_ReviewOnlyAfterPR ==
    /\ [][\A k \in QueueAgentTypes : \A e \in queue'[k] \ queue[k] :
             e.type = "review" =>
                /\ k = "qa"
                /\ \E w \in WorkerAgents \cap {"backend", "frontend"} :
                      /\ pc[w] = "sync_ok"
                      /\ w \in has_pr
                      /\ cur[w].type # "none"
                      /\ claimCount[cur[w].id] >= 1
                      /\ WriteKey(cur[w]) = e.issue]_vars
    /\ [](\A k \in QueueAgentTypes \ {"qa"} : \A e \in queue[k] : e.type # "review")

C15_Witness ==
    \E e \in queue["qa"] : e.type = "review" /\ e.issue \in Issues

\* the worker w leaves the hand-off point after a task that completed with a
\* pull-request number
HandOff(w) ==
    /\ w \in {"backend", "frontend"}
    /\ pc[w] = "sync_ok"
    /\ w \in has_pr
    /\ pc'[w] # "sync_ok"

\* a review for the task of w is put on the QA queue and w is back at the
\* head of its loop (or in the deployment the drain check started)
ReviewQueued(w) ==
    /\ \E e \in queue'["qa"] \ queue["qa"] :
          e.type = "review" /\ e.issue = WriteKey(cur[w])
    /\ pc'[w] \in {"loop", "deploy"}

C19_EndsStopped ==
    \A w \in LoopAgents : ~daemon_running => worker_states[w] = "stopped"

\* C20 as stated: a worker that met an unavailable broker halts, it does not
\* go back to polling.
C20_HaltsOnBrokerError ==
    \A w \in LoopAgents :
        w \in saw_broker_error => pc[w] \in {"backoff", "cancelled"}

\* C20 amended: a worker that meets an unavailable broker is set to state error
\* and backs off, with queues and tracking records left as they were, and after
\* the back-off it is at the head of its loop again.
C20_BacksOffAndPollsAgain ==
    [][\A w \in LoopAgents :
          /\ (w \notin saw_broker_error /\ w \in saw_broker_error')
                => /\ worker_states'[w] = "error"
                   /\ pc'[w] = "backoff"
                   /\ queue' = queue
                   /\ tracking' = tracking
          /\ (pc[w] = "backoff" /\ pc'[w] \notin {"backoff", "cancelled"})
                => pc'[w] = "loop"]_vars

\* a worker that met an unavailable broker executes a task claimed afterwards
C20_Witness ==
    /\ "backend" \in saw_broker_error
    /\ pc["backend"] = "exec"
    /\ broker_up

\* C21: a failed main try classified auth_error or permission starts no
\* diagnose-and-fix invocation and leaves the flag alone; the call sleeps and
\* retries after the first and the second try and raises after the third, and a
\* call that raised a CLI failure has made all three tries.
C21_NoHealingForAuthErrors ==
    /\ [][\A c \in Calls :
             (hpc[c] = "main" /\ hpc'[c] # "main" /\ last_error_type'[c] \in Unhealable)
                => /\ healCount'[c] = healCount[c]
                   /\ _is_healing' = _is_healing
                   /\ hpc'[c] = IF attempt[c] < max_retries - 1 THEN "sleep" ELSE "raised"]_vars
    /\ [](\A c \in Calls :
             (hpc[c] = "raised" /\ last_error_type[c] \in ErrorTypes)
                => mainCount[c] = max_retries)

\* a call whose three tries all ended without a healing invocation raised an
\* auth or permission failure while no other call was healing
C21_Witness ==
    \E c \in Calls :
        /\ hpc[c] = "raised"
        /\ last_error_type[c] \in Unhealable
        /\ mainCount[c] = max_retries
        /\ healCount[c] = 0
        /\ \A d \in Calls \ {c} : hpc[d] = "idle"

\* C22: the end of a diagnose-and-fix invocation, failed or not, leads to the
\* back-off sleep while tries remain and to the raise of the main failure after
\* the third try; a call returns only out of a main try, and raises a CLI
\* failure only after three main tries.
C22_HealingNeverDecides ==
    /\ [][\A c \in Calls :
             /\ (hpc[c] = "heal" /\ hpc'[c] # "heal")
                   => hpc'[c] = IF attempt[c] < max_retries - 1 THEN "sleep" ELSE "raised"
             /\ (hpc[c] # "returned" /\ hpc'[c] = "returned") => hpc[c] = "main"]_vars
    /\ [](\A c \in Calls :
             (hpc[c] = "raised" /\ heal_failed[c] /\ last_error_type[c] \in ErrorTypes)
                => mainCount[c] = max_retries)

\* a call whose healing invocation failed went on to a later try and returned
C22_Witness ==
    \E c \in Calls :
        /\ heal_failed[c]
        /\ hpc[c] = "returned"
        /\ mainCount[c] >= 2

\* C24 as stated: a returned deploy reports success exactly when image build
\* and container start both succeeded; a failed route leaves it successful
\* with the failure in the note.
C24_SuccessIffBuiltAndStarted ==
    \A d \in Deployers :
        deploy_call[d].pc = "done"
            => /\ deploy_call[d].success
                     <=> (deploy_call[d].build_ok /\ deploy_call[d].run_ok)
               /\ (deploy_call[d].build_ok /\ deploy_call[d].run_ok
                      /\ ~deploy_call[d].route_ok)
                     => (deploy_call[d].success /\ deploy_call[d].note = "route")

\* C24 amended: a returned deploy reports success exactly when image build and
\* container start both succeeded and nothing raised afterwards; a successful
\* result carries the route failure in its note exactly when the route failed.
C24_SuccessUnlessRaised ==
    \A d \in Deployers :
        deploy_call[d].pc = "done"
            => /\ deploy_call[d].success
                     <=> (deploy_call[d].build_ok /\ deploy_call[d].run_ok
                             /\ ~deploy_call[d].raised)
               /\ deploy_call[d].success
                     => /\ (deploy_call[d].note = "route") <=> ~deploy_call[d].route_ok
                        /\ (deploy_call[d].note = "") <=> deploy_call[d].route_ok

\* a deploy whose route failed returned success with the route note
C24_Witness ==
    \E d \in Deployers :
        /\ deploy_call[d].pc = "done"
        /\ deploy_call[d].success
        /\ ~deploy_call[d].route_ok
        /\ deploy_call[d].note = "route"

\* C25: the port chosen by a deploy is at or above the start constant, is not a
\* value of the allocations file at that moment, and every port between the
\* start constant and it is a value of the file.
C25_SmallestUnusedPort ==
    [][\A d \in Deployers :
          (deploy_call[d].pc = "build" /\ deploy_call'[d].pc = "rm")
             => /\ deploy_call'[d].port >= PORT_START
                /\ deploy_call'[d].port \notin UsedPorts(port_allocations)
                /\ \A q \in PORT_START .. (deploy_call'[d].port - 1) :
                      q \in UsedPorts(port_allocations)]_vars

\* a deploy chose the third port while the file holds the first two
C25_Witness ==
    \E d \in Deployers :
        /\ deploy_call[d].pc = "rm"
        /\ deploy_call[d].port = PORT_START + 2
        /\ UsedPorts(port_allocations) = {PORT_START, PORT_START + 1}

\* number of entries of a hostname in an ingress list
Entries(ing, hostname) == {i \in 1..Len(ing) : ing[i].hostname = hostname}

\* C26: the ingress list has exactly one entry per updated hostname, with the
\* port of the latest update, none for a hostname never updated, and once
\* anything was written its last element is the only catch-all.
C26_OneEntryPerHostname ==
    /\ \A n \in DeployNames :
          IF last_update[n] = 0 THEN Entries(ingress, n) = {}
          ELSE /\ Cardinality(Entries(ingress, n)) = 1
               /\ \A i \in Entries(ingress, n) : ingress[i].port = last_update[n]
    /\ ingress # <<>> => /\ ingress[Len(ingress)] = CatchAll
                         /\ Entries(ingress, "") = {Len(ingress)}

\* two hostnames have an entry and one of them was updated more than once
C26_Witness ==
    /\ Len(ingress) = 3
    /\ \E n \in DeployNames : last_update[n] = PORT_START + 2

\* C27: applying the update for the same hostname and port a second time leaves
\* the ingress list as the first application left it, for the update a deploy
\* repeats and for every hostname and port on every list the deploys produce.
C27_UpdateIdempotent ==
    /\ [][\A d \in Deployers :
             (/\ deploy_call[d].pc = "run" /\ deploy_call'[d].pc = "dns"
              /\ last_applied = [hostname |-> deploy_call[d].name,
                                 port |-> deploy_call[d].port])
                => ingress' = ingress]_vars
    /\ [](\A n \in DeployNames, p \in Ports :
             LET once == _update_cloudflared_config(ingress, n, p)
             IN  _update_cloudflared_config(once, n, p) = once)

\* the last ingress update repeated the one before it
C27_Witness == repeated /\ ingress # <<>>

\* C28 as stated: an update for a hostname that already has an entry leaves the
\* entry at its position and every other element as it was.
C28_UpdateInPlace ==
    [][\A d \in Deployers :
          (deploy_call[d].pc = "run" /\ deploy_call'[d].pc = "dns")
             => \A i \in Entries(ingress, deploy_call[d].name) :
                   /\ Len(ingress') = Len(ingress)
                   /\ ingress'[i].hostname = deploy_call[d].name
                   /\ \A j \in (1..Len(ingress)) \ {i} : ingress'[j] = ingress[j]]_vars

\* C28 amended: an update for a hostname that already has an entry removes that
\* entry and puts the new one directly before the catch-all; the length is kept
\* and the other elements keep their order.
C28_UpdateMovesBeforeCatchAll ==
    [][\A d \in Deployers :
          (/\ deploy_call[d].pc = "run" /\ deploy_call'[d].pc = "dns"
           /\ Entries(ingress, deploy_call[d].name) # {})
             => /\ Len(ingress') = Len(ingress)
                /\ ingress'[Len(ingress') - 1] = [hostname |-> deploy_call[d].name,
                                                  port |-> deploy_call[d].port]
                /\ WithoutHost(ingress', deploy_call[d].name)
                      = WithoutHost(ingress, deploy_call[d].name)]_vars

\* the entry of the hostname deployed first now stands behind the other one
C28_Witness ==
    ingress = <<[hostname |-> "beta", port |-> PORT_START + 1],
                [hostname |-> "alpha", port |-> PORT_START + 2], CatchAll>>

\* C29 as stated: the retry executor calls the wrapped operation at most its
\* configured maximum number of times, the rate-limit decorator at most 5 times.
C29_AtMostMaxCalls ==
    /\ wrapped.pc # "idle" => func_calls <= wrapped.max_retries
    /\ wrapped.kind = "rate_limit" => func_calls <= 5

\* C29 amended: the wrapped operation is called at most max_retries + 1 times
\* (6 times under the rate-limit decorator); when every call raised a retried
\* exception the wrapper raises after exactly max_retries + 1 calls, and the
\* delay before a retry never exceeds the cap.
C29_AtMostMaxRetriesPlusOne ==
    /\ wrapped.pc # "idle" => func_calls <= wrapped.max_retries + 1
    /\ wrapped.kind = "rate_limit" => func_calls <= RateLimitRetries + 1
    /\ func_calls = wrapped.attempt + (IF wrapped.pc = "idle" THEN 0 ELSE 1)
    /\ (wrapped.pc = "raised" /\ wrapped.kind = "default")
          => func_calls = wrapped.max_retries + 1
    /\ wrapped.delay <= (IF wrapped.kind = "rate_limit" THEN 16 * 300 ELSE 16 * 60)

\* the rate-limit decorator gave up after its sixth call
C29_Witness ==
    /\ wrapped.kind = "rate_limit"
    /\ wrapped.pc = "raised"
    /\ func_calls = 6

C23_GreenAfterFix ==
    \A r \in Runs :
        (/\ latest_run = [id |-> r, status |-> "completed", conclusion |-> "success"]
         /\ _fix_attempts[r] > 0)
            => (r \in _handled_runs /\ green_notified[r] >= 1)

\* C31 as stated: every write to the tracking record sets its time-to-live to
\* seven days, and the record expires only seven days after its last write.
C31_EveryWriteRestartsTtl ==
    [][/\ (last_op' \in {"enqueue", "claim", "complete", "fail"}) => rec_ttl' = TTL_DAYS
       /\ (last_op' = "expire") => since_write' = TTL_DAYS]_vars

\* C31 amended: only the enqueue sets the time-to-live; claim, complete and
\* fail leave the expiry of an existing record as it is and create a record
\* without expiry when none exists; a record expires seven days after its last
\* enqueue and a record without expiry never does.
C31_OnlyEnqueueSetsTtl ==
    [][/\ (last_op' = "enqueue") => rec_ttl' = TTL_DAYS
       /\ (last_op' \in {"claim", "complete", "fail"})
             => rec_ttl' = (IF rec_ttl = NoKey THEN NoExpiry ELSE rec_ttl)
       /\ (last_op' = "expire") => (since_enqueue' = TTL_DAYS /\ rec_ttl # NoExpiry)
       /\ (rec_ttl = NoExpiry /\ last_op' # "enqueue")
             => (rec_ttl' = NoExpiry /\ rec_status' # "absent")]_vars

\* the record expired two days after it was written by a claim
C31_Witness ==
    /\ last_op = "expire"
    /\ rec_status = "absent"
    /\ since_write = 2
    /\ claimed

\* C32: a worker has an entry in the task start times only while its state is
\* working; in idle, polling, error and stopped no start time is present.
C32_StartTimeOnlyWhileWorking ==
    \A w \in WorkerAgents : w \in task_start_times => worker_states[w] = "working"

\* C33: the project metadata file and the ingress configuration file are
\* replaced atomically: no read observes a partial file, and a file that no
\* process is writing (after a write or after a crash) is complete.
C33_NoPartialFile ==
    \A f \in Files :
        /\ observed[f] \in {NoFile, FileChunks}
        /\ file_writer[f] = "idle" => file_len[f] \in {NoFile, FileChunks}

\* C34: every task a claim removed from a queue eventually has its tracking
\* record set to completed or failed (no worker is cancelled in this
\* specification); no record stays in_progress forever.
C34_ClaimedEventuallySettled ==
    \A k \in Keys :
        (tracking[k] = "in_progress") ~> (tracking[k] \in {"completed", "failed"})

\* C35: the drain hook never fires while a worker is still executing a
\* claimed task.
C35_NoFireWhileExecuting ==
    [][deploys' # deploys => \A w \in WorkerAgents : pc'[w] # "exec"]_vars

\* C36: no two projects hold the same host port in the persisted allocations
\* and no two containers run on the same host port, whatever the overlap of
\* the deploys.
C36_PortsDistinct ==
    \A n1 \in DeployNames : \A n2 \in DeployNames \ {n1} :
        /\ port_allocations[n1] # 0 => port_allocations[n1] # port_allocations[n2]
        /\ containers[n1] # 0 => containers[n1] # containers[n2]

\* C37: a successful deploy of project P records the published URL on the
\* record of P and persists the metadata of P, and changes the record of no
\* other project, also when the active project changes during the deploy.
C37_UrlOnDeployedProject ==
    [][(master_deploy.pc = "deploying" /\ master_deploy'.pc = "idle"
            /\ master_deploy'.success)
          => /\ deploy_url'[master_deploy.name] = master_deploy.name
             /\ saved_url'[master_deploy.name] = master_deploy.name
             /\ \A q \in Projects \ {master_deploy.name} :
                    deploy_url'[q] = deploy_url[q]]_vars

\* C38: a monitor started for project P polls the CI runs of the repository
\* of P only, for as long as it runs.
C38_MonitorPollsOwnRepo ==
    polled.m # 0 => polled.repo = mon_project[polled.m]

\* C39 as stated: the agent pushes and opens a pull request only if the test
\* suite passed on the first run or on the re-run, or no test framework was
\* detected.
C39_PushOnlyAfterPass ==
    impl.pushed =>
        \/ ~impl.has_pytest /\ ~impl.has_jest
        \/ impl.first \in RunOutcomes /\ Passed(impl.has_pytest, impl.first)
        \/ impl.second \in RunOutcomes /\ Passed(impl.has_pytest, impl.second)

\* C39 amended: the agent pushes and opens a pull request only if the test
\* suite passed on the first run or on the re-run, or no test framework was
\* detected, or the first run timed out or its command was not found; a first
\* run that failed is never followed by a push unless the re-run passed.
C39_PushAfterPassOrSkippedRun ==
    /\ impl.pushed =>
          \/ ~impl.has_pytest /\ ~impl.has_jest
          \/ impl.first \in {"timeout", "not_found"}
          \/ impl.first \in RunOutcomes /\ Passed(impl.has_pytest, impl.first)
          \/ impl.second \in RunOutcomes \ {"timeout", "not_found"}
                /\ Passed(impl.has_pytest, impl.second)
    /\ impl.pr => impl.pushed

\* a push after a first run that timed out
C39_Witness ==
    /\ impl.pushed
    /\ impl.pr
    /\ impl.has_pytest
    /\ impl.first = "timeout"

\* C40: every task on the queue of an agent kind has a task kind that the
\* execute dispatch of this agent kind accepts, and no dispatch rejects a
\* claimed task.
C40_QueuedKindAccepted ==
    /\ \A a \in QueueAgentTypes : \A e \in kind_queue[a] : Accepts(a, e.task_type)
    /\ dispatched.agent # "none" => dispatched.accepted

====
